---- MODULE Spec2Model ----
(***************************************************************************)
(* callonce: a request-scoped call-coalescing cache.                       *)
(*                                                                         *)
(* The model follows src/callonce.go lines 1-144: Key/Lookup construction, *)
(* the Cache (store + singleflight group), Forget and Get.  The calls made *)
(* on one Cache are numbered 1..MaxCalls in the order they begin; each is  *)
(* made by some goroutine, and any number of them may be in progress at    *)
(* once.  Every critical section of Cache.mu and of the singleflight       *)
(* group's mutex is one atomic step; the steps of different calls          *)
(* interleave freely.  A call's record stays after it has returned, so the *)
(* state also is the history of the calls made so far.                     *)
(*                                                                         *)
(* The observer (Observer, EventData, WithObserver and Cache.emit) is in   *)
(* src/unnamed/part_000, part_002 and part_003; the places where Get calls *)
(* emit are taken from spec.md section 4.2.  A runtime panic is recorded   *)
(* in the err field of an outcome, as one of the Faults.                   *)
(***************************************************************************)
EXTENDS Integers, Sequences, FiniteSets, TLC

VARIABLES
    store,    \* Cache.store: fullKey -> value (a partial function, as the Go map)
    group,    \* Cache.group: the singleflight registry, coalescing key -> running call
    observer, \* Cache.observer: TRUE when WithObserver attached one
    pc,       \* per call: where it stands
    op,       \* per call: "Get" or "Forget" on the context that carries the
              \* Cache, "GetNoCache" or "ForgetNoCache" on a bare context
    lookups,  \* per call: the lookups argument
    fn,       \* per call: the (value, error) its fn argument produces when invoked
    found,    \* per call: the local v read on the fast path (line 95)
    hit,      \* per call: the local k of that read, the cacheKey that hit
    leader,   \* per call: the call whose singleflight flight it shares
    out,      \* per call: (val, err) as group.Do hands it back (line 112)
    res,      \* per call: what Get returned
    invoked,  \* per call: how often it has invoked fn
    pre,      \* per call: the store when the call began
    post,     \* per call: the store when the call returned
    forgot,   \* per call: fullKeys a Forget named while the call was in progress
    started,  \* per Forget: the calls that had invoked their fn when it ran
    prior,    \* per call: the calls that had returned when this one began
    ev,       \* per call: the observer.On calls made on its behalf, each with
              \* the EventData passed and whether On has returned
    ctxs,     \* the contexts made so far, each the chain of the Caches that
              \* WithCache attached, outermost first (Background is <<>>)
    cur,      \* the Cache that store and group are the fields of
    parked,   \* the stores of the other Caches made so far
    cache,    \* per call: the Cache that FromContext(ctx) gave it
    mu,       \* c.mu: the calls holding it shared (r), the call holding it
              \* exclusively (w, 0 if none), the calls blocked in Lock (q)
    caller    \* per call: the call whose fn made it, 0 when made from outside

\* what WithCache and FromContext work on
scope == <<ctxs, cur, parked>>

\* who holds or awaits c.mu, and who is waiting for whose return
locking == <<mu, caller>>

vars == <<store, group, observer, pc, op, lookups, fn, found, leader, out, res,
          invoked, pre, post, forgot, prior, ev, scope, cache, hit, started, locking>>

----------------------------------------------------------------------------
(* Bounds *)

MaxCalls == 2      \* calls (Get or Forget) begun in a behaviour of Spec
MaxSeqCalls == 3   \* calls begun in a behaviour of the narrower specifications
MaxObsCalls == 5   \* calls begun one after another on a Cache with an observer
MaxCaches == 3     \* Caches made by WithCache in a behaviour

Max(a, b) == IF a >= b THEN a ELSE b

\* the call numbers; a specification begins the first n of them
Calls == 1..Max(Max(MaxCalls, MaxSeqCalls), MaxObsCalls)

----------------------------------------------------------------------------
(* Keys and lookups *)

\* the interface types among the value types used here
IsInterface(T) == T \in {"any", "error"}

\* Sprintf("%T", zero) for the zero value of T: the type's name, and "<nil>"
\* for every interface type, whose zero value is the nil interface
TypeName(T) == IF IsInterface(T) THEN "<nil>" ELSE T

\* NewKey[T](name): the key's name is Sprintf("%T:%s", zero, name).  The
\* field T is the type parameter of Key[T]; no operation of the Cache reads it.
NewKey(T, name) == [name |-> TypeName(T) \o ":" \o name, T |-> T]

\* L(key, identifier)
L(key, identifier) == [Key |-> key, Identifier |-> identifier]

\* l.Key.name + ":" + l.Identifier
fullKey(l) == l.Key.name \o ":" \o l.Identifier

\* cacheKeys[i] = fullKey of lookups[i]
cacheKeys(ls) == [i \in 1..Len(ls) |-> fullKey(ls[i])]

Range(s) == {s[i] : i \in 1..Len(s)}

byID == NewKey("*main.User", "user-by-id")
bySlug == NewKey("*main.User", "user-by-slug")

L1 == L(byID, "42")
L2 == L(bySlug, "alice")
Lookups == {L1, L2}

\* keys of one name for several value types (strKey and intKey of
\* TestGetDifferentTypes, a pointer type, two interface types), each with
\* the identifier "1"
ValueTypes == {"string", "int", "*main.S", "any", "error"}
TypedLookups == {L(NewKey(T, "val"), "1") : T \in ValueTypes}

Injective(s) == \A i, j \in 1..Len(s) : s[i] = s[j] => i = j

\* the argument lists: distinct lookups, at least one
LookupSeqs ==
    {s \in UNION {[1..m -> Lookups] : m \in 1..Cardinality(Lookups)} :
        Injective(s)}

----------------------------------------------------------------------------
(* Values, errors, compute functions *)

Nil == "nil"
ErrBoom == "boom"
Zero == 0

\* runtime panics: panic("kaboom") raised by a compute, the index
\* expression cacheKeys[0] on an empty slice, a failed type assertion v.(T)
Kaboom == "panic: kaboom"
IndexOutOfRange == "panic: index out of range [0] with length 0"
InterfaceConversion == "panic: interface conversion"
Faults == {Kaboom, IndexOutOfRange, InterfaceConversion}

IsFault(e) == e \in Faults

\* What the fn argument of call c does when invoked: it returns a value no
\* other call's fn returns with a nil error (kind "ok"), that value with
\* errBoom ("err"), the zero value of T (nil where T has one) with a nil
\* error ("nil"), or it panics ("panic").
Compute(c, kind) ==
    CASE kind = "ok" -> [val |-> c, err |-> Nil]
      [] kind = "err" -> [val |-> c, err |-> ErrBoom]
      [] kind = "nil" -> [val |-> Zero, err |-> Nil]
      [] kind = "panic" -> [val |-> Zero, err |-> Kaboom]

OkKinds == {"ok"}
AllKinds == {"ok", "err"}
NilKinds == {"ok", "nil"}
FaultKinds == {"ok", "err", "panic"}

NoOut == [val |-> Zero, err |-> Nil]

\* values that computes of calls made before the behaviour begins returned
SeedValues == {-1, -2}

EmptyMap == [k \in {} |-> Zero]

----------------------------------------------------------------------------
(* Store operations *)

\* Forget deleting under the key name alone, which is no fullKey of the store
ForgetNothing(st, ks) == st

\* Forget resetting the whole map instead of deleting the named keys
ForgetAll(st, ks) == EmptyMap

\* Forget's loop: delete(c.store, fullKey) for every lookup
ForgetKeys(st, ks) == [k \in DOMAIN st \ Range(ks) |-> st[k]]

\* the scan starting at the second cacheKey
FirstHitFromSecond(st, ks) ==
    LET hits == {i \in 2..Len(ks) : ks[i] \in DOMAIN st}
    IN IF hits = {} THEN 0
       ELSE CHOOSE i \in hits : \A j \in hits : i <= j

\* the scan looking at cacheKeys[0] alone
FirstHitFirstOnly(st, ks) == IF ks[1] \in DOMAIN st THEN 1 ELSE 0

\* the scan running from the last cacheKey to the first
FirstHitLast(st, ks) ==
    LET hits == {i \in 1..Len(ks) : ks[i] \in DOMAIN st}
    IN IF hits = {} THEN 0
       ELSE CHOOSE i \in hits : \A j \in hits : i >= j

\* the index of the first cacheKey present in the store, 0 if none
FirstHit(st, ks) ==
    LET hits == {i \in 1..Len(ks) : ks[i] \in DOMAIN st}
    IN IF hits = {} THEN 0
       ELSE CHOOSE i \in hits : \A j \in hits : i <= j

\* the fast path returning without the backfill
BackfillNone(st, ks, v) == st

\* fast-path backfill: for _, k2 := range cacheKeys { c.store[k2] = v }
Backfill(st, ks, v) ==
    [k \in DOMAIN st \cup Range(ks) |-> IF k \in Range(ks) THEN v ELSE st[k]]

\* the slow path storing under cacheKeys[0] alone
StoreFirst(st, ks, v) ==
    [k \in DOMAIN st \cup {ks[1]} |-> IF k = ks[1] THEN v ELSE st[k]]

\* slow-path store: for _, k := range cacheKeys { c.store[k] = result }
StoreAll(st, ks, v) ==
    [k \in DOMAIN st \cup Range(ks) |-> IF k \in Range(ks) THEN v ELSE st[k]]

\* the closure without its double-check
RecheckSkipped(st, ks) == 0

\* the closure's double-check looking at cacheKeys[0] alone
RecheckFirstOnly(st, ks) == IF ks[1] \in DOMAIN st THEN 1 ELSE 0

\* the closure's double-check: the same scan, inside group.Do
Recheck(st, ks) == FirstHit(st, ks)

\* the closure storing whatever fn returned, error or not
ClosureStoreAlways(st, ks, r) == StoreAll(st, ks, r.val)

\* the closure after fn returned r: an error stores nothing, a result is
\* stored under all keys
ClosureStore(st, ks, r) ==
    IF r.err # Nil THEN st ELSE StoreAll(st, ks, r.val)

\* an epilogue that hands back what the flight returned, value and error
GetResultKeepsVal(o) == o

\* the epilogue without its error branch
GetResultDropsErr(o) == [val |-> o.val, err |-> Nil]

\* Get's epilogue: an error yields (zero, err), otherwise (val, nil)
GetResult(o) ==
    IF o.err # Nil THEN [val |-> Zero, err |-> o.err]
    ELSE [val |-> o.val, err |-> Nil]

\* one flight for the whole Cache, whatever the lookups
FlightKeyOfCache(ls) == "cache"

\* coalescing on the last cacheKey
FlightKeyLast(ls) == cacheKeys(ls)[Len(ls)]

\* coalescing on all the cacheKeys together
FlightKeyAll(ls) ==
    IF Len(ls) = 1 THEN cacheKeys(ls)[1]
    ELSE cacheKeys(ls)[1] \o "," \o cacheKeys(ls)[2]

\* singleflight: the coalescing key of a call is its first cacheKey
FlightKey(ls) == cacheKeys(ls)[1]

----------------------------------------------------------------------------
(* Initial state: a Cache made by WithCache, holding what the successful   *)
(* Gets made on it so far have stored (nothing, or seed values under some  *)
(* fullKeys); no call is in progress.                                      *)

Keys == {fullKey(l) : l \in Lookups}

SeedStores == UNION {[S -> SeedValues] : S \in SUBSET Keys}

\* the zero value of sync.RWMutex
Unlocked == [r |-> {}, w |-> 0, q |-> {}]

\* context.Background(), and the Cache ids: the Cache of the first WithCache
\* call, and what FromContext returns when ctx carries none
Background == <<>>
FirstCache == 1
NoCache == 0

\* WithCache(ctx, opts...): a Cache whose store is one of S (empty when
\* fresh), with the observer of WithObserver when o; no call is in progress
WithCache(S, o) ==
    /\ store \in S
    /\ group = EmptyMap
    /\ observer = o
    /\ pc = [c \in Calls |-> "new"]
    /\ op = [c \in Calls |-> "none"]
    /\ lookups = [c \in Calls |-> <<>>]
    /\ fn = [c \in Calls |-> NoOut]
    /\ found = [c \in Calls |-> Zero]
    /\ hit = [c \in Calls |-> ""]
    /\ leader = [c \in Calls |-> c]
    /\ out = [c \in Calls |-> NoOut]
    /\ res = [c \in Calls |-> NoOut]
    /\ invoked = [c \in Calls |-> 0]
    /\ pre = [c \in Calls |-> EmptyMap]
    /\ post = [c \in Calls |-> EmptyMap]
    /\ forgot = [c \in Calls |-> {}]
    /\ started = [c \in Calls |-> {}]
    /\ prior = [c \in Calls |-> {}]
    /\ ev = [c \in Calls |-> <<>>]
    /\ ctxs = {Background, <<FirstCache>>}
    /\ cur = FirstCache
    /\ parked = EmptyMap
    /\ cache = [c \in Calls |-> NoCache]
    /\ mu = Unlocked
    /\ caller = [c \in Calls |-> 0]

Init == WithCache(SeedStores, FALSE)

\* a fresh Cache with an observer attached
InitObserved == WithCache({EmptyMap}, TRUE)

\* a fresh Cache without one
InitFresh == WithCache({EmptyMap}, FALSE)

----------------------------------------------------------------------------
(* Bookkeeping shared by the actions *)

Returned == {c \in Calls : pc[c] = "ret"}
InProgress == {c \in Calls : pc[c] \notin {"new", "ret"}}

\* calls are numbered in the order they begin
MayBegin(c, n) ==
    /\ c <= n
    /\ pc[c] = "new"
    /\ \A d \in Calls : d < c => pc[d] # "new"

\* call c begins as operation o with lookups ls
Begin(c, o, ls) ==
    /\ op' = [op EXCEPT ![c] = o]
    /\ cache' = [cache EXCEPT ![c] = IF o \in {"Get", "Forget"}
                                     THEN cur ELSE NoCache]
    /\ lookups' = [lookups EXCEPT ![c] = ls]
    /\ pre' = [pre EXCEPT ![c] = store]
    /\ prior' = [prior EXCEPT ![c] = Returned]

\* Get call c returns r (or panics with the fault r.err), leaving the store
\* as st
Return(c, r, st) ==
    /\ res' = [res EXCEPT ![c] = r]
    /\ post' = [post EXCEPT ![c] = st]
    /\ pc' = [pc EXCEPT ![c] = "ret"]

----------------------------------------------------------------------------
(* WithCache and FromContext (lines 45-56)                                 *)

\* FromContext(ctx): ctx.Value(contextKey{}) finds the value attached last
FromContext(h) == IF Len(h) = 0 THEN NoCache ELSE h[Len(h)]

\* the Caches made so far
Caches == {cur} \cup DOMAIN parked

\* the store of Cache i
StoreOf(i) == IF i = cur THEN store ELSE parked[i]

\* a WithCache that hands the new Cache the entries of the Cache its parent
\* context carries
InheritedStore(st) == st

\* &Cache{store: make(map[string]any)}: the store of a new Cache, whatever
\* the store st of the Cache its parent context carries
NewStore(st) == EmptyMap

\* WithCache(parent): a child context that carries a new Cache
WithCacheCall(parent) ==
    /\ parent \in ctxs
    /\ Cardinality(Caches) < MaxCaches
    /\ LET id == Cardinality(Caches) + 1
           st == IF FromContext(parent) = NoCache THEN EmptyMap
                 ELSE StoreOf(FromContext(parent))
       IN /\ ctxs' = ctxs \cup {Append(parent, id)}
          /\ parked' = [i \in DOMAIN parked \cup {id} |->
                          IF i = id THEN NewStore(st) ELSE parked[i]]
    /\ UNCHANGED <<store, group, observer, locking, pc, op, lookups, fn, found, hit, leader,
                   out, res, invoked, pre, post, forgot, started, prior, ev, cur, cache>>

\* c := FromContext(h) with no call in progress: the calls that follow are
\* made with context h, and store and group are the fields of its Cache
UseContext(h) ==
    /\ h \in ctxs
    /\ FromContext(h) \notin {NoCache, cur}
    /\ InProgress = {}
    /\ cur' = FromContext(h)
    /\ store' = parked[FromContext(h)]
    /\ parked' = [i \in (DOMAIN parked \ {FromContext(h)}) \cup {cur} |->
                    IF i = cur THEN store ELSE parked[i]]
    /\ UNCHANGED <<group, observer, locking, pc, op, lookups, fn, found, hit, leader, out,
                   res, invoked, pre, post, forgot, started, prior, ev, ctxs, cache>>

----------------------------------------------------------------------------
(* Type assertion v.(T) (lines 106 and 143)                                *)

\* the type parameter T of Get call c, that of its lookups' Key[T]
StaticT(c) == lookups[c][1].Key.T

\* the dynamic type of the non-nil values a func() (T, error) returns
ConcreteOf(T) ==
    CASE T = "any" -> "int"
      [] T = "error" -> "*errors.errorString"
      [] OTHER -> T

\* the dynamic type of the stored value v: seed values are values of the
\* lookups' type, the value c is what the compute of call c returned
DynType(v) ==
    IF v \in SeedValues THEN "*main.User" ELSE ConcreteOf(StaticT(v))

\* a value of dynamic type D can be asserted to T
Implements(D, T) ==
    \/ D = T
    \/ T = "any"
    \/ T = "error" /\ D = "*errors.errorString"

\* v.(T) succeeds.  The zero value was stored through a key of the same
\* name: for an interface type T it is the nil interface, which no type
\* assertion accepts; otherwise it is a value of type T (a nil pointer).
AssertsTo(v, T) ==
    IF v = Zero THEN ~IsInterface(T) ELSE Implements(DynType(v), T)

\* return v.(T), nil: the value, or the panic of the failed assertion
Asserted(c, r) ==
    IF r.err = Nil /\ ~AssertsTo(r.val, StaticT(c))
    THEN [val |-> Zero, err |-> InterfaceConversion]
    ELSE r

----------------------------------------------------------------------------
(* Observer (src/unnamed/part_000 lines 3-27, part_002 lines 18-27)        *)

EventHit == "hit"
EventMiss == "miss"
EventDedup == "dedup"

EventData(event, l) ==
    [Event |-> event, Key |-> l.Key.name, Identifier |-> l.Identifier]

\* c.emit(event, keyName, identifier) calls c.observer.On(EventData{...})
emit(c, e) ==
    ev' = [ev EXCEPT ![c] = Append(@, [On |-> e, returned |-> FALSE])]

\* go c.observer.On(...): the caller goes on at once
DispatchDetached(onPc, nextPc) == nextPc

\* c.observer.On(...) is a plain call on the caller's goroutine: the caller
\* is inside On (at onPc) until On returns, and goes on to nextPc after it
Dispatch(onPc, nextPc) == onPc

\* the program points at which a call is inside observer.On
OnPcs == {"onHit", "onHitCheck", "onMiss", "onDedup"}

\* The places where Get calls emit (spec.md 4.2 steps 3 and 4): the fast
\* path and the closure's re-check emit Hit for the matching lookup, the
\* closure emits Miss for the first lookup before it invokes fn, and a call
\* that shared another call's flight emits Dedup for its first lookup.

\* the fast path reporting its hit for the first lookup supplied
FastHitOfFirst(ls, i) == EventData(EventHit, ls[1])

\* the fast path reporting its hit as a miss
FastHitAsMiss(ls, i) == EventData(EventMiss, ls[i])

FastHitEvent(ls, i) == EventData(EventHit, ls[i])

RecheckHitEvent(ls, i) == EventData(EventHit, ls[i])

MissEvent(ls) == EventData(EventMiss, ls[1])

DedupEvent(ls) == EventData(EventDedup, ls[1])

\* Dedup emitted on the shared flag of group.Do, which is also set for the
\* winner of a flight that others joined
EmitsDedupWhenShared(c) ==
    leader[c] # c \/ \E w \in Calls : w # c /\ leader[w] = c

\* Dedup is emitted by the calls that did not run the closure
EmitsDedup(c) == leader[c] # c

----------------------------------------------------------------------------
(* Forget (lines 60-71): one critical section of c.mu                      *)

\* Forget on a context without a Cache deleting from the Cache all the same
ForgetWithoutCacheDeletes(st, ks) ==
    [k \in DOMAIN st \ Range(ks) |-> st[k]]

\* FromContext(ctx) == nil: return (lines 61-64)
ForgetWithoutCache(st, ks) == st

Forget(c, LS, n) ==
    /\ MayBegin(c, n)
    /\ \E ls \in LS :
         LET st == ForgetKeys(store, cacheKeys(ls))
         IN /\ Begin(c, "Forget", ls)
            /\ store' = st
            /\ post' = [post EXCEPT ![c] = st]
            /\ forgot' = [d \in Calls |->
                            IF d \in InProgress
                            THEN forgot[d] \cup Range(cacheKeys(ls))
                            ELSE forgot[d]]
            /\ started' = [started EXCEPT ![c] = {d \in Calls : invoked[d] > 0}]
    /\ pc' = [pc EXCEPT ![c] = "ret"]
    /\ UNCHANGED <<group, observer, locking, scope, fn, found, hit, leader, out, res, invoked, ev>>

\* Forget(ctx, lookups...) on a context that carries no Cache
ForgetNoCache(c, LS, n) ==
    /\ MayBegin(c, n)
    /\ \E ls \in LS :
         LET st == ForgetWithoutCache(store, cacheKeys(ls))
         IN /\ Begin(c, "ForgetNoCache", ls)
            /\ store' = st
            /\ post' = [post EXCEPT ![c] = st]
    /\ pc' = [pc EXCEPT ![c] = "ret"]
    /\ UNCHANGED <<group, observer, locking, scope, fn, found, hit, leader, out, res, invoked,
                   forgot, started, ev>>

----------------------------------------------------------------------------
(* Get (lines 80-144)                                                      *)

\* the call begins: arguments are bound, cacheKeys are built (lines 80-90)
GetStart(c, LS, KS, n) ==
    /\ MayBegin(c, n)
    /\ \E ls \in LS, kind \in KS :
         /\ Begin(c, "Get", ls)
         /\ fn' = [fn EXCEPT ![c] = Compute(c, kind)]
    /\ pc' = [pc EXCEPT ![c] = "fast"]
    /\ UNCHANGED <<store, group, observer, locking, scope, found, hit, leader, out, res, invoked,
                   post, forgot, started, ev>>

\* Get on a context that carries no Cache handing back a zero value with
\* an error, as the epilogue of the cached path does
DirectResultZeroed(r) ==
    IF r.err # Nil THEN [val |-> Zero, err |-> r.err] ELSE r

\* return fn() (line 83): whatever fn returned, or its panic
DirectResult(r) == r

\* Get on a context that carries no Cache (lines 80-84): fn is invoked
GetNoCache(c, LS, KS, n) ==
    /\ MayBegin(c, n)
    /\ \E ls \in LS, kind \in KS :
         /\ Begin(c, "GetNoCache", ls)
         /\ fn' = [fn EXCEPT ![c] = Compute(c, kind)]
    /\ invoked' = [invoked EXCEPT ![c] = @ + 1]
    /\ pc' = [pc EXCEPT ![c] = "direct"]
    /\ UNCHANGED <<store, group, observer, locking, scope, found, hit, leader, out, res, post,
                   forgot, started, ev>>

\* that fn returns, and Get with it (line 83)
FnDirect(c) ==
    /\ pc[c] = "direct"
    /\ Return(c, DirectResult(fn[c]), store)
    /\ UNCHANGED <<store, group, observer, locking, scope, op, cache, lookups, fn, found, hit, leader,
                   out, invoked, pre, forgot, started, prior, ev>>

\* fast path (lines 93-109): scan under RLock; a single-lookup hit returns.
\* With an observer attached the hit is emitted first (spec.md 4.2 step 3).
FastPath(c) ==
    /\ pc[c] = "fast"
    /\ LET ks == cacheKeys(lookups[c])
           i == FirstHit(store, ks)
       IN IF i = 0
          THEN /\ pc' = [pc EXCEPT ![c] = "do"]
               /\ UNCHANGED <<found, hit, res, post, ev>>
          ELSE IF observer
          THEN /\ found' = [found EXCEPT ![c] = store[ks[i]]]
               /\ hit' = [hit EXCEPT ![c] = ks[i]]
               /\ emit(c, FastHitEvent(lookups[c], i))
               /\ pc' = [pc EXCEPT ![c] = Dispatch("onHit",
                              IF Len(ks) > 1 THEN "backfill" ELSE "ret")]
               /\ UNCHANGED <<res, post>>
          ELSE IF Len(ks) > 1
          THEN /\ found' = [found EXCEPT ![c] = store[ks[i]]]
               /\ hit' = [hit EXCEPT ![c] = ks[i]]
               /\ pc' = [pc EXCEPT ![c] = "backfill"]
               /\ UNCHANGED <<res, post, ev>>
          ELSE /\ Return(c, Asserted(c, [val |-> store[ks[i]], err |-> Nil]),
                         store)
               /\ UNCHANGED <<found, hit, ev>>
    /\ UNCHANGED <<store, group, observer, locking, scope, op, cache, lookups, fn, leader, out,
                   invoked, pre, forgot, started, prior>>

\* backfill under Lock (lines 99-106), then return v.(T)
BackfillStep(c) ==
    /\ pc[c] = "backfill"
    /\ LET st == Backfill(store, cacheKeys(lookups[c]), found[c])
       IN /\ store' = st
          /\ Return(c, Asserted(c, [val |-> found[c], err |-> Nil]), st)
    /\ UNCHANGED <<group, observer, locking, scope, op, cache, lookups, fn, found, hit, leader, out,
                   invoked, pre, forgot, started, prior, ev>>

\* c.group.Do(cacheKeys[0], ...) (line 112): with no lookup the index
\* expression panics; otherwise share the flight in progress for the key,
\* or register a new one and run the closure
Do(c) ==
    /\ pc[c] = "do"
    /\ IF Len(lookups[c]) = 0
       THEN /\ Return(c, [val |-> Zero, err |-> IndexOutOfRange], store)
            /\ UNCHANGED <<group, leader>>
       ELSE LET k == FlightKey(lookups[c])
            IN IF k \in DOMAIN group
               THEN /\ leader' = [leader EXCEPT ![c] = group[k]]
                    /\ pc' = [pc EXCEPT ![c] = "wait"]
                    /\ UNCHANGED <<group, res, post>>
               ELSE /\ group' = [x \in DOMAIN group \cup {k} |->
                                   IF x = k THEN c ELSE group[x]]
                    /\ pc' = [pc EXCEPT ![c] = "check"]
                    /\ UNCHANGED <<leader, res, post>>
    /\ UNCHANGED <<store, observer, locking, scope, op, cache, lookups, fn, found, hit, out, invoked, pre,
                   forgot, started, prior, ev>>

\* the closure's double-check (lines 114-121); on a miss fn is invoked
\* (line 123).  With an observer attached the hit or the miss is emitted
\* first (spec.md 4.2 step 4).
DoubleCheck(c) ==
    /\ pc[c] = "check"
    /\ LET ks == cacheKeys(lookups[c])
           i == Recheck(store, ks)
       IN IF i = 0
          THEN IF observer
               THEN /\ emit(c, MissEvent(lookups[c]))
                    /\ pc' = [pc EXCEPT ![c] = Dispatch("onMiss", "running")]
                    /\ UNCHANGED <<out, invoked>>
               ELSE /\ invoked' = [invoked EXCEPT ![c] = @ + 1]
                    /\ pc' = [pc EXCEPT ![c] = "running"]
                    /\ UNCHANGED <<out, ev>>
          ELSE /\ out' = [out EXCEPT ![c] = [val |-> store[ks[i]], err |-> Nil]]
               /\ IF observer
                  THEN /\ emit(c, RecheckHitEvent(lookups[c], i))
                       /\ pc' = [pc EXCEPT ![c] = Dispatch("onHitCheck", "done")]
                  ELSE /\ pc' = [pc EXCEPT ![c] = "done"]
                       /\ UNCHANGED ev
               /\ UNCHANGED invoked
    /\ UNCHANGED <<store, group, observer, locking, scope, op, cache, lookups, fn, found, hit, leader, res,
                   pre, post, forgot, started, prior>>

\* a closure that starts over when fn failed
AfterFnRetries(r) == IF r.err # Nil THEN "check" ELSE "done"

\* where the closure is once fn returned r: at its end, whatever r is
\* (return result, err at line 125; return result, nil at line 135; a panic
\* unwinds it)
AfterFn(r) == "done"

\* fn returns or panics (lines 123-135): an error is handed back, a result
\* is stored under all keys, a panic is caught by singleflight's doCall
FnReturn(c) ==
    /\ pc[c] = "running"
    /\ store' = ClosureStore(store, cacheKeys(lookups[c]), fn[c])
    /\ out' = [out EXCEPT ![c] = fn[c]]
    /\ pc' = [pc EXCEPT ![c] = AfterFn(fn[c])]
    /\ UNCHANGED <<group, observer, locking, scope, op, cache, lookups, fn, found, hit, leader, res,
                   invoked, pre, post, forgot, started, prior, ev>>

\* a doCall that lets the panic of fn unwind past its epilogue: the key
\* stays in the registry and the calls sharing the flight stay blocked
DoCallLeaksOnPanic(c) ==
    /\ pc[c] = "done"
    /\ LET k == FlightKey(lookups[c])
           ws == IF IsFault(out[c].err) THEN {}
                 ELSE {w \in Calls : pc[w] = "wait" /\ leader[w] = c}
       IN /\ group' = IF IsFault(out[c].err) THEN group
                      ELSE [x \in DOMAIN group \ {k} |-> group[x]]
          /\ pc' = [d \in Calls |-> IF d = c \/ d \in ws THEN "after" ELSE pc[d]]
          /\ out' = [d \in Calls |-> IF d \in ws THEN out[c] ELSE out[d]]
    /\ UNCHANGED <<store, observer, locking, scope, op, cache, lookups, fn, found, hit, leader, res,
                   invoked, pre, post, forgot, started, prior, ev>>

\* singleflight's doCall epilogue: the flight is done, the key leaves the
\* registry and every call sharing the flight receives its (val, err), or
\* its panic
DoCallDone(c) ==
    /\ pc[c] = "done"
    /\ LET k == FlightKey(lookups[c])
           ws == {w \in Calls : pc[w] = "wait" /\ leader[w] = c}
       IN /\ group' = [x \in DOMAIN group \ {k} |-> group[x]]
          /\ pc' = [d \in Calls |-> IF d = c \/ d \in ws THEN "after" ELSE pc[d]]
          /\ out' = [d \in Calls |-> IF d \in ws THEN out[c] ELSE out[d]]
    /\ UNCHANGED <<store, observer, locking, scope, op, cache, lookups, fn, found, hit, leader, res,
                   invoked, pre, post, forgot, started, prior, ev>>

\* after group.Do (lines 138-143): a panic goes on to the caller; with an
\* observer attached a call that shared another's flight emits Dedup
\* (spec.md 4.2 step 4); otherwise Get returns
AfterDo(c) ==
    /\ pc[c] = "after"
    /\ IF IsFault(out[c].err)
       THEN Return(c, out[c], store) /\ UNCHANGED ev
       ELSE IF observer /\ EmitsDedup(c)
       THEN /\ emit(c, DedupEvent(lookups[c]))
            /\ pc' = [pc EXCEPT ![c] = Dispatch("onDedup", "ret")]
            /\ UNCHANGED <<res, post>>
       ELSE /\ Return(c, Asserted(c, GetResult(out[c])), store)
            /\ UNCHANGED ev
    /\ UNCHANGED <<store, group, observer, locking, scope, op, cache, lookups, fn, found, hit, leader, out,
                   invoked, pre, forgot, started, prior>>

\* the fast-path hit has been emitted (spec.md 4.2 step 3): backfill when
\* there are several lookups, then return v.(T)
AfterHit(c) ==
    IF Len(lookups[c]) > 1
    THEN /\ pc' = [pc EXCEPT ![c] = "backfill"]
         /\ UNCHANGED <<res, post>>
    ELSE Return(c, Asserted(c, [val |-> found[c], err |-> Nil]), store)

\* observer.On returns to emit, and emit to the place in Get that called it
OnReturns(c) ==
    /\ pc[c] \in OnPcs
    /\ ev' = [ev EXCEPT ![c] =
                [i \in 1..Len(@) |-> IF i = Len(@)
                                     THEN [@[i] EXCEPT !.returned = TRUE]
                                     ELSE @[i]]]
    /\ CASE pc[c] = "onHit" ->
              AfterHit(c) /\ UNCHANGED invoked
         [] pc[c] = "onHitCheck" ->
              /\ pc' = [pc EXCEPT ![c] = "done"]
              /\ UNCHANGED <<res, post, invoked>>
         [] pc[c] = "onMiss" ->
              /\ invoked' = [invoked EXCEPT ![c] = @ + 1]
              /\ pc' = [pc EXCEPT ![c] = "running"]
              /\ UNCHANGED <<res, post>>
         [] pc[c] = "onDedup" ->
              /\ Return(c, Asserted(c, GetResult(out[c])), store)
              /\ UNCHANGED invoked
    /\ UNCHANGED <<store, group, observer, locking, scope, op, cache, lookups, fn, found, hit, leader, out,
                   pre, forgot, started, prior>>

----------------
(* Get and Forget step by step through c.mu (sync.RWMutex): each RLock,    *)
(* Lock and write to the store is a step of its own.  The actions above    *)
(* take a whole critical section as one step; these are the same lines of  *)
(* the source, for the claims about the lock itself.                       *)

\* what the steps below never change
fixed == <<observer, scope>>

\* what a call is given when it begins
begun == <<op, cache, lookups, fn, pre, prior, caller>>

\* a Lock that would not wait for the calls holding c.mu shared
CanLockAmongReaders(m) == m.w = 0

\* an RLock that would not wait for the call holding c.mu exclusively
CanRLockAmongWriters(m) == m.q = {}

\* c.mu.RLock() returns when no call holds c.mu exclusively; a call blocked
\* in Lock keeps new readers out (sync.RWMutex)
CanRLock(m) == m.w = 0 /\ m.q = {}

\* c.mu.Lock() returns when no call holds c.mu at all
CanLock(m) == m.w = 0 /\ m.r = {}

\* a fast path hit that keeps c.mu shared while it goes on to the backfill
RUnlockOnMissOnly(m, c, i) == IF i = 0 THEN [m EXCEPT !.r = @ \ {c}] ELSE m

\* c.mu.RUnlock() after the scan found cacheKeys[i] (lines 96, 118), or
\* found nothing (lines 109, 121)
RUnlock(m, c, i) == [m EXCEPT !.r = @ \ {c}]

\* a critical section that ends without c.mu.Unlock()
UnlockKept(m, c) == m

\* c.mu.Unlock() (lines 70, 105, 133)
Unlock(m, c) == [m EXCEPT !.w = 0]

\* the program points whose next statement is c.mu.RLock() (lines 93, 115)
\* and where the call is once it holds c.mu shared
RLockSites == {"fast", "check"}
Reading(p) == IF p = "fast" THEN "scan" ELSE "rescan"

\* the program points whose next statement is c.mu.Lock() (lines 66, 100,
\* 129) and where the call is once it holds c.mu
LockSites == {"forget", "backfill", "store"}
Writing(p) ==
    CASE p = "forget" -> "forgetting"
      [] p = "backfill" -> "fill"
      [] p = "store" -> "storing"

\* the calls that fn of call p made and that have not returned
Pending(p) == {d \in Calls : caller[d] = p /\ pc[d] # "ret"}

\* c.mu.RLock() (lines 93, 115)
RLock(c) ==
    /\ pc[c] \in RLockSites
    /\ CanRLock(mu)
    /\ mu' = [mu EXCEPT !.r = @ \cup {c}]
    /\ pc' = [pc EXCEPT ![c] = Reading(pc[c])]
    /\ UNCHANGED <<store, group, fixed, ev, begun, found, hit, leader, out, res,
                   invoked, post, forgot, started>>

\* the fast-path scan under the shared lock (lines 94-96, 109): RUnlock,
\* then on to group.Do, to the backfill, or return v.(T).  With an observer
\* attached the hit is emitted first and the lock released after it
\* (spec.md 4.2 step 3: emit Hit; release the read lock).
ScanFast(c) ==
    /\ pc[c] = "scan"
    /\ LET ks == cacheKeys(lookups[c])
           i == FirstHit(store, ks)
       IN /\ mu' = IF observer /\ i # 0 THEN mu ELSE RUnlock(mu, c, i)
          /\ IF i = 0
             THEN /\ pc' = [pc EXCEPT ![c] = "do"]
                  /\ UNCHANGED <<found, hit, res, post, ev>>
             ELSE /\ found' = [found EXCEPT ![c] = store[ks[i]]]
                  /\ hit' = [hit EXCEPT ![c] = ks[i]]
                  /\ IF observer
                     THEN /\ emit(c, FastHitEvent(lookups[c], i))
                          /\ pc' = [pc EXCEPT ![c] = Dispatch("onHit",
                                         IF Len(ks) > 1 THEN "backfill" ELSE "ret")]
                          /\ UNCHANGED <<res, post>>
                     ELSE IF Len(ks) > 1
                     THEN /\ pc' = [pc EXCEPT ![c] = "backfill"]
                          /\ UNCHANGED <<res, post, ev>>
                     ELSE /\ Return(c, Asserted(c, [val |-> store[ks[i]],
                                                    err |-> Nil]), store)
                          /\ UNCHANGED ev
    /\ UNCHANGED <<store, group, fixed, begun, leader, out, invoked, forgot,
                   started>>

\* c.mu.Lock() is called (lines 66, 100, 129): it returns at once when c.mu
\* is free and nobody is blocked in Lock, else the call blocks in it
Lock(c) ==
    /\ pc[c] \in LockSites
    /\ c \notin mu.q
    /\ IF CanLock(mu) /\ mu.q = {}
       THEN /\ mu' = [mu EXCEPT !.w = c]
            /\ pc' = [pc EXCEPT ![c] = Writing(pc[c])]
       ELSE /\ mu' = [mu EXCEPT !.q = @ \cup {c}]
            /\ UNCHANGED pc
    /\ UNCHANGED <<store, group, fixed, ev, begun, found, hit, leader, out, res,
                   invoked, post, forgot, started>>

\* a call blocked in c.mu.Lock() gets the lock
LockGranted(c) ==
    /\ c \in mu.q
    /\ CanLock(mu)
    /\ mu' = [mu EXCEPT !.w = c, !.q = @ \ {c}]
    /\ pc' = [pc EXCEPT ![c] = Writing(pc[c])]
    /\ UNCHANGED <<store, group, fixed, ev, begun, found, hit, leader, out, res,
                   invoked, post, forgot, started>>

\* the next iteration of  for _, k := range cacheKeys { c.store[k] = v }
\* that changes the store: 0 when every cacheKey holds v
NextWrite(st, ks, v) ==
    LET todo == {i \in 1..Len(ks) : ks[i] \notin DOMAIN st \/ st[ks[i]] # v}
    IN IF todo = {} THEN 0 ELSE CHOOSE i \in todo : \A j \in todo : i <= j

\* c.store[k] = v
Write(st, k, v) == [x \in DOMAIN st \cup {k} |-> IF x = k THEN v ELSE st[x]]

\* the backfill loop under the exclusive lock (lines 101-103), one write a
\* step; after the last one Unlock and return v.(T) (lines 105, 107)
Fill(c) ==
    /\ pc[c] = "fill"
    /\ LET ks == cacheKeys(lookups[c])
           i == NextWrite(store, ks, found[c])
       IN IF i # 0
          THEN /\ store' = Write(store, ks[i], found[c])
               /\ UNCHANGED <<mu, pc, res, post>>
          ELSE /\ mu' = Unlock(mu, c)
               /\ Return(c, Asserted(c, [val |-> found[c], err |-> Nil]), store)
               /\ UNCHANGED store
    /\ UNCHANGED <<group, fixed, ev, begun, found, hit, leader, out, invoked,
                   forgot, started>>

\* the closure's double-check under the shared lock (lines 116-121):
\* RUnlock, then return v, or go on to fn (line 123).  With an observer
\* attached the hit is emitted first, as on the fast path, and the miss
\* once the scan is over (spec.md 4.2 step 4).
ScanCheck(c) ==
    /\ pc[c] = "rescan"
    /\ LET ks == cacheKeys(lookups[c])
           i == Recheck(store, ks)
       IN /\ mu' = IF observer /\ i # 0 THEN mu ELSE RUnlock(mu, c, i)
          /\ IF i = 0
             THEN IF observer
                  THEN /\ emit(c, MissEvent(lookups[c]))
                       /\ pc' = [pc EXCEPT ![c] = Dispatch("onMiss", "running")]
                       /\ UNCHANGED <<out, invoked>>
                  ELSE /\ invoked' = [invoked EXCEPT ![c] = @ + 1]
                       /\ pc' = [pc EXCEPT ![c] = "running"]
                       /\ UNCHANGED <<out, ev>>
             ELSE /\ out' = [out EXCEPT ![c] = [val |-> store[ks[i]],
                                                err |-> Nil]]
                  /\ IF observer
                     THEN /\ emit(c, RecheckHitEvent(lookups[c], i))
                          /\ pc' = [pc EXCEPT ![c] =
                                         Dispatch("onHitCheck", "done")]
                     ELSE /\ pc' = [pc EXCEPT ![c] = "done"]
                          /\ UNCHANGED ev
                  /\ UNCHANGED invoked
    /\ UNCHANGED <<store, group, fixed, begun, found, hit, leader, res, post,
                   forgot, started>>

\* fn, while it runs, calls Get on the same Cache with a first lookup other
\* than the one of the Get it was given to
FnCallsGet(p, c, LS, KS, n) ==
    /\ pc[p] = "running"
    /\ \A d \in Calls : caller[d] # p
    /\ MayBegin(c, n)
    /\ \E ls \in LS, kind \in KS :
         /\ fullKey(ls[1]) # fullKey(lookups[p][1])
         /\ Begin(c, "Get", ls)
         /\ fn' = [fn EXCEPT ![c] = Compute(c, kind)]
    /\ caller' = [caller EXCEPT ![c] = p]
    /\ pc' = [pc EXCEPT ![c] = "fast"]
    /\ UNCHANGED <<store, group, fixed, ev, mu, found, hit, leader, out, res,
                   invoked, post, forgot, started>>

\* fn, while it runs, calls Forget on the same Cache
FnCallsForget(p, c, LS, n) ==
    /\ pc[p] = "running"
    /\ \A d \in Calls : caller[d] # p
    /\ MayBegin(c, n)
    /\ \E ls \in LS : Begin(c, "Forget", ls)
    /\ caller' = [caller EXCEPT ![c] = p]
    /\ pc' = [pc EXCEPT ![c] = "forget"]
    /\ UNCHANGED <<store, group, fixed, ev, mu, fn, found, hit, leader, out, res,
                   invoked, post, forgot, started>>

\* fn returns or panics (lines 123-126), once the calls it made returned:
\* an error or a panic ends the closure, a result goes on to be stored
FnReturns(c) ==
    /\ pc[c] = "running"
    /\ Pending(c) = {}
    /\ out' = [out EXCEPT ![c] = fn[c]]
    /\ pc' = [pc EXCEPT ![c] = IF fn[c].err # Nil THEN "done" ELSE "store"]
    /\ UNCHANGED <<store, group, fixed, ev, begun, mu, found, hit, leader, res,
                   invoked, post, forgot, started>>

\* the closure's store loop under the exclusive lock (lines 130-132), one
\* write a step; after the last one Unlock and return result (lines 133, 135)
Store(c) ==
    /\ pc[c] = "storing"
    /\ LET ks == cacheKeys(lookups[c])
           i == NextWrite(store, ks, fn[c].val)
       IN IF i # 0
          THEN /\ store' = Write(store, ks[i], fn[c].val)
               /\ UNCHANGED <<mu, pc>>
          ELSE /\ mu' = Unlock(mu, c)
               /\ pc' = [pc EXCEPT ![c] = "done"]
               /\ UNCHANGED store
    /\ UNCHANGED <<group, fixed, ev, begun, found, hit, leader, out, res, invoked,
                   post, forgot, started>>

\* Forget with a Cache begins (lines 60-65)
ForgetStart(c, LS, n) ==
    /\ MayBegin(c, n)
    /\ \E ls \in LS : Begin(c, "Forget", ls)
    /\ pc' = [pc EXCEPT ![c] = "forget"]
    /\ UNCHANGED <<store, group, fixed, ev, locking, fn, found, hit, leader, out,
                   res, invoked, post, forgot, started>>

\* Forget's deletes under the exclusive lock, Unlock and return (lines 67-70)
Delete(c) ==
    /\ pc[c] = "forgetting"
    /\ LET ks == cacheKeys(lookups[c])
           st == ForgetKeys(store, ks)
       IN /\ store' = st
          /\ post' = [post EXCEPT ![c] = st]
          /\ forgot' = [d \in Calls |->
                          IF d \in InProgress \ {c}
                          THEN forgot[d] \cup Range(ks)
                          ELSE forgot[d]]
    /\ started' = [started EXCEPT ![c] = {d \in Calls : invoked[d] > 0}]
    /\ mu' = Unlock(mu, c)
    /\ pc' = [pc EXCEPT ![c] = "ret"]
    /\ UNCHANGED <<group, fixed, ev, begun, found, hit, leader, out, res, invoked>>

\* the steps call c takes by itself once it has begun
Moves(c) ==
    \/ RLock(c)
    \/ ScanFast(c)
    \/ Lock(c)
    \/ LockGranted(c)
    \/ Fill(c)
    \/ Do(c)
    \/ ScanCheck(c)
    \/ FnReturns(c)
    \/ Store(c)
    \/ DoCallDone(c)
    \/ AfterDo(c)
    \/ Delete(c)

\* observer.On returns from a Hit emitted under the shared lock: RUnlock,
\* then on as after the scan
OnHitReturns(c) ==
    /\ pc[c] \in {"onHit", "onHitCheck"}
    /\ ev' = [ev EXCEPT ![c] =
                [i \in 1..Len(@) |-> IF i = Len(@)
                                     THEN [@[i] EXCEPT !.returned = TRUE]
                                     ELSE @[i]]]
    /\ mu' = RUnlock(mu, c, 1)
    /\ IF pc[c] = "onHit"
       THEN AfterHit(c)
       ELSE /\ pc' = [pc EXCEPT ![c] = "done"]
            /\ UNCHANGED <<res, post>>
    /\ UNCHANGED <<store, group, fixed, begun, found, hit, leader, out, invoked,
                   forgot, started>>

\* observer.On returns from a Miss or a Dedup
OnOtherReturns(c) == pc[c] \in {"onMiss", "onDedup"} /\ OnReturns(c)

\* the steps of call c with an observer attached
MovesObserved(c) == Moves(c) \/ OnHitReturns(c) \/ OnOtherReturns(c)

----------------------------------------------------------------------------

(* Specifications *)

\* n calls are made: Get with lookups from LS and computes of the kinds
\* KS, Forget with lookups from GS; at most w calls are in progress at once
Step(LS, KS, GS, n, w) ==
    \E c \in Calls :
        \/ Cardinality(InProgress) < w /\ GetStart(c, LS, KS, n)
        \/ FastPath(c)
        \/ BackfillStep(c)
        \/ Do(c)
        \/ DoubleCheck(c)
        \/ FnReturn(c)
        \/ DoCallDone(c)
        \/ AfterDo(c)
        \/ Cardinality(InProgress) < w /\ Forget(c, GS, n)

\* every call in whatever interleaving
Next == Step(LookupSeqs, AllKinds, LookupSeqs, MaxCalls, MaxCalls)

Spec == Init /\ [][Next]_vars

\* one call at a time
NextSeq == Step(LookupSeqs, AllKinds, LookupSeqs, MaxSeqCalls, 1)

SpecSeq == Init /\ [][NextSeq]_vars

\* Gets only, in whatever interleaving, every compute succeeding
NextGets ==
    \E c \in Calls :
        \/ GetStart(c, LookupSeqs, OkKinds, MaxCalls)
        \/ FastPath(c)
        \/ BackfillStep(c)
        \/ Do(c)
        \/ DoubleCheck(c)
        \/ FnReturn(c)
        \/ DoCallDone(c)
        \/ AfterDo(c)

SpecGets == Init /\ [][NextGets]_vars

\* Gets only, all with the one lookup L1, every compute succeeding
NextSame ==
    \E c \in Calls :
        \/ GetStart(c, {<<L1>>}, OkKinds, MaxSeqCalls)
        \/ FastPath(c)
        \/ Do(c)
        \/ DoubleCheck(c)
        \/ FnReturn(c)
        \/ DoCallDone(c)
        \/ AfterDo(c)

SpecSame == Init /\ [][NextSame]_vars

\* the argument lists of calls on a bare context: none, one or two lookups
BareLookupSeqs == {<<>>, <<L1>>, <<L1, L2>>}

\* Gets and Forgets on a context that carries no Cache, in whatever
\* interleaving with Gets of L1 on the context that carries the Cache
NextNoCache ==
    \E c \in Calls :
        \/ GetNoCache(c, BareLookupSeqs, FaultKinds, MaxCalls)
        \/ FnDirect(c)
        \/ ForgetNoCache(c, BareLookupSeqs, MaxCalls)
        \/ GetStart(c, {<<L1>>}, OkKinds, MaxCalls)
        \/ FastPath(c)
        \/ Do(c)
        \/ DoubleCheck(c)
        \/ FnReturn(c)
        \/ DoCallDone(c)
        \/ AfterDo(c)

SpecNoCache == Init /\ [][NextNoCache]_vars

\* Gets on the Cache given no lookup at all, or L1, in whatever interleaving
NextZero ==
    \E c \in Calls :
        \/ GetStart(c, {<<>>, <<L1>>}, AllKinds, MaxSeqCalls)
        \/ FastPath(c)
        \/ Do(c)
        \/ DoubleCheck(c)
        \/ FnReturn(c)
        \/ DoCallDone(c)
        \/ AfterDo(c)

SpecZero == Init /\ [][NextZero]_vars

\* one call at a time, computes that succeed, fail or panic
NextFaultSeq == Step(LookupSeqs, FaultKinds, LookupSeqs, MaxCalls, 1)

SpecFaultSeq == Init /\ [][NextFaultSeq]_vars

\* Gets on a fresh Cache in whatever interleaving, computes that succeed,
\* fail or panic
NextFault ==
    \E c \in Calls :
        \/ GetStart(c, LookupSeqs, FaultKinds, MaxCalls)
        \/ FastPath(c)
        \/ BackfillStep(c)
        \/ Do(c)
        \/ DoubleCheck(c)
        \/ FnReturn(c)
        \/ DoCallDone(c)
        \/ AfterDo(c)

SpecFault == InitFresh /\ [][NextFault]_vars

\* Gets and Forgets of the one lookup L1 in whatever interleaving, every
\* compute succeeding
NextForget ==
    \E c \in Calls :
        \/ GetStart(c, {<<L1>>}, OkKinds, MaxSeqCalls)
        \/ FastPath(c)
        \/ Do(c)
        \/ DoubleCheck(c)
        \/ FnReturn(c)
        \/ DoCallDone(c)
        \/ AfterDo(c)
        \/ Forget(c, {<<L1>>}, MaxSeqCalls)

SpecForget == Init /\ [][NextForget]_vars

\* contexts derived by WithCache from the contexts made so far, and Gets
\* made one after another with any of them, Background included
NextScopes ==
    \/ \E h \in ctxs : WithCacheCall(h) \/ UseContext(h)
    \/ \E c \in Calls :
          \/ InProgress = {} /\ GetStart(c, {<<L1>>}, OkKinds, MaxCalls)
          \/ InProgress = {} /\ GetNoCache(c, {<<L1>>}, OkKinds, MaxCalls)
          \/ FnDirect(c)
          \/ FastPath(c)
          \/ Do(c)
          \/ DoubleCheck(c)
          \/ FnReturn(c)
          \/ DoCallDone(c)
          \/ AfterDo(c)

SpecScopes == Init /\ [][NextScopes]_vars

\* the lookups of the five Gets of TestObserverHitAndMiss: miss, hit, miss
\* (new key), hit, hit
TestSequence == <<L1, L1, L2, L2, L1>>

\* Gets made one after another on a fresh Cache with an observer attached
NextObsSeq ==
    \E c \in Calls :
        \/ InProgress = {}
             /\ GetStart(c, {<<L1>>, <<L2>>, <<L2, L1>>}, AllKinds, MaxObsCalls)
        \/ FastPath(c)
        \/ BackfillStep(c)
        \/ Do(c)
        \/ DoubleCheck(c)
        \/ FnReturn(c)
        \/ DoCallDone(c)
        \/ AfterDo(c)
        \/ OnReturns(c)

SpecObsSeq == InitObserved /\ [][NextObsSeq]_vars

\* Gets of L1, alone or followed by L2, in whatever interleaving on a fresh
\* Cache with an observer attached, every compute succeeding
NextObs ==
    \E c \in Calls :
        \/ GetStart(c, {<<L1>>, <<L1, L2>>}, OkKinds, MaxSeqCalls)
        \/ FastPath(c)
        \/ BackfillStep(c)
        \/ Do(c)
        \/ DoubleCheck(c)
        \/ FnReturn(c)
        \/ DoCallDone(c)
        \/ AfterDo(c)
        \/ OnReturns(c)

SpecObs == InitObserved /\ [][NextObs]_vars

\* Gets of L2, or of L1 followed by L2, in whatever interleaving on a fresh
\* Cache with an observer attached, every compute succeeding
NextRecheck ==
    \E c \in Calls :
        \/ GetStart(c, {<<L2>>, <<L1, L2>>}, OkKinds, MaxCalls)
        \/ FastPath(c)
        \/ BackfillStep(c)
        \/ Do(c)
        \/ DoubleCheck(c)
        \/ FnReturn(c)
        \/ DoCallDone(c)
        \/ AfterDo(c)
        \/ OnReturns(c)

SpecRecheck == InitObserved /\ [][NextRecheck]_vars

\* Gets of L1 on a fresh Cache that begin only once every compute in
\* progress has returned or panicked; computes that succeed, fail or panic
NextRetire ==
    \E c \in Calls :
        \/ /\ \A d \in InProgress : pc[d] \in {"done", "after"}
           /\ GetStart(c, {<<L1>>}, FaultKinds, MaxSeqCalls)
        \/ FastPath(c)
        \/ Do(c)
        \/ DoubleCheck(c)
        \/ FnReturn(c)
        \/ DoCallDone(c)
        \/ AfterDo(c)

SpecRetire == InitFresh /\ [][NextRetire]_vars

\* the calls made so far from outside any compute
Outer == {d \in Calls : pc[d] # "new" /\ caller[d] = 0}

\* the lookups of the calls that go through c.mu step by step
LockedLookupSeqs == {<<L1>>, <<L2, L1>>}

\* Gets on a fresh Cache in whatever interleaving, each step of c.mu apart:
\* up to MaxCalls made from outside, the others by a compute while it runs,
\* which may also call Forget; every compute succeeding
NextLocks ==
    \E c \in Calls :
        \/ /\ Cardinality(Outer) < MaxCalls
           /\ GetStart(c, LockedLookupSeqs, OkKinds, MaxSeqCalls)
        \/ \E p \in Calls :
              \/ FnCallsGet(p, c, {<<L1>>, <<L2>>}, OkKinds, MaxSeqCalls)
              \/ FnCallsForget(p, c, {<<L1>>}, MaxSeqCalls)
        \/ Moves(c)

SpecLocks == InitFresh /\ [][NextLocks]_vars

\* Gets and Forgets on a fresh Cache with an observer attached, in whatever
\* interleaving, each step of c.mu apart; computes that succeed, fail or
\* panic and make no call on the Cache
NextLive ==
    \E c \in Calls :
        \/ GetStart(c, LockedLookupSeqs, FaultKinds, MaxCalls)
        \/ ForgetStart(c, {<<L1>>}, MaxCalls)
        \/ MovesObserved(c)

\* while some call that has begun can take a step, one is taken: the
\* scheduler runs a goroutine that can run, a compute or an observer.On
\* call that is running returns
Fairness == WF_vars(\E c \in Calls : MovesObserved(c))

SpecLive == InitObserved /\ [][NextLive]_vars /\ Fairness

\* Gets and Forgets on a fresh Cache in whatever interleaving, computes that
\* succeed, fail or panic
NextRetry ==
    Step({<<L1>>, <<L1, L2>>}, FaultKinds, {<<L1>>}, MaxCalls, MaxCalls)

SpecRetry == InitFresh /\ [][NextRetry]_vars

\* key names and identifiers as callers may choose them: empty, plain, and
\* holding the ":" that NewKey and Get put between the parts
Names == {"", "a", "a:b"}
Identifiers == {"", "c", "b:c"}

\* the lookups made of them, for two value types
NamedLookups ==
    {L(NewKey(T, n), i) : T \in {"string", "int"}, n \in Names, i \in Identifiers}

\* Gets made one after another on a fresh Cache, each through some key name
\* and identifier, every compute succeeding
NextKeys ==
    \E c \in Calls :
        \/ InProgress = {}
             /\ GetStart(c, {<<l>> : l \in NamedLookups}, OkKinds, MaxCalls)
        \/ FastPath(c)
        \/ Do(c)
        \/ DoubleCheck(c)
        \/ FnReturn(c)
        \/ DoCallDone(c)
        \/ AfterDo(c)

SpecKeys == InitFresh /\ [][NextKeys]_vars

\* Gets of L1 on the context that carries the Cache and on a context that
\* carries none, in whatever interleaving, computes that succeed or fail
NextErrors ==
    \E c \in Calls :
        \/ GetNoCache(c, {<<L1>>}, AllKinds, MaxSeqCalls)
        \/ FnDirect(c)
        \/ GetStart(c, {<<L1>>}, AllKinds, MaxSeqCalls)
        \/ FastPath(c)
        \/ Do(c)
        \/ DoubleCheck(c)
        \/ FnReturn(c)
        \/ DoCallDone(c)
        \/ AfterDo(c)

SpecErrors == InitFresh /\ [][NextErrors]_vars

\* WithCache(ctx) or WithCache(ctx, WithObserver(o)): a fresh Cache, with an
\* observer attached or without one
InitEither == \E o \in BOOLEAN : WithCache({EmptyMap}, o)

\* Gets of L1, alone or after L2, and Forgets of L1 on it in whatever
\* interleaving, computes that succeed, fail or panic
NextEither ==
    \/ Step(LockedLookupSeqs, FaultKinds, {<<L1>>}, MaxCalls, MaxCalls)
    \/ \E c \in Calls : OnReturns(c)

SpecEither == InitEither /\ [][NextEither]_vars

\* Gets on a fresh Cache through keys of one name and several value types,
\* in whatever interleaving, every compute returning a value or the zero
\* value of its type
NextTypes ==
    \E c \in Calls :
        \/ GetStart(c, {<<l>> : l \in TypedLookups}, NilKinds, MaxCalls)
        \/ FastPath(c)
        \/ Do(c)
        \/ DoubleCheck(c)
        \/ FnReturn(c)
        \/ DoCallDone(c)
        \/ AfterDo(c)

SpecTypes == InitFresh /\ [][NextTypes]_vars

----------------------------------------------------------------------------
(* Vocabulary of the properties *)

Gets == {c \in Calls : op[c] = "Get"}
Forgets == {c \in Calls : op[c] = "Forget"}
GetsNoCache == {c \in Calls : op[c] = "GetNoCache"}
ForgetsNoCache == {c \in Calls : op[c] = "ForgetNoCache"}

\* calls c and d were in progress at the same time
Overlap(c, d) == c # d /\ c \notin prior[d] /\ d \notin prior[c]
ReturnedGets == Gets \cap Returned

keysOf(c) == Range(cacheKeys(lookups[c]))

\* the compute of call c was invoked and returned an error / a value
Failed(c) == invoked[c] > 0 /\ fn[c].err # Nil
Computed(c) == invoked[c] > 0 /\ fn[c].err = Nil

Ok(v) == [val |-> v, err |-> Nil]

\* the events observer.On received on behalf of call c, in order
Events(c) == [i \in 1..Len(ev[c]) |-> ev[c][i].On]

\* how many events of kind e the observer received for the calls in S
Count(e, S) ==
    Cardinality({x \in UNION {{<<c, i>> : i \in 1..Len(ev[c])} : c \in S} :
                    ev[x[1]][x[2]].On.Event = e})

\* every observer.On call made for call c has returned
AllOnReturned(c) == \A i \in 1..Len(ev[c]) : ev[c][i].returned

\* the calls that shared the flight of call l without running the closure
Waiters(l) == {w \in Gets : w # l /\ leader[w] = l}

\* the first Len(TestSequence) calls were the Gets of TestSequence
RanTestSequence ==
    \A c \in 1..Len(TestSequence) :
        c \in ReturnedGets /\ lookups[c] = <<TestSequence[c]>> /\ fn[c].err = Nil

\* the compute of call c was invoked and panicked
Panicked(c) == invoked[c] > 0 /\ IsFault(fn[c].err)

\* d is the call made right after c returned, nothing else in progress
Follows(d, c) == d = c + 1 /\ c \in Returned /\ prior[d] = 1..c

\* some supplied fullKey was stored when c began and no Forget named it since
HeldSince(c) == (keysOf(c) \cap DOMAIN pre[c]) \ forgot[c]

----------------------------------------------------------------------------
(* Properties *)

\* C1: Gets that all supply the single lookup L1, with computes that
\* succeed and no Forget: no call invokes its compute twice, at most one
\* call invokes it at all, every call that has returned returned the same
\* value with no error, and when L1 was not stored to begin with that value
\* is the result of the one compute that ran.
C1_ComputeOnce ==
    LET k == fullKey(L1)
        ran == {c \in Gets : invoked[c] > 0}
    IN /\ \A c \in Calls : invoked[c] <= 1
       /\ Cardinality(ran) <= 1
       /\ \A c, d \in ReturnedGets : res[c].err = Nil /\ res[c] = res[d]
       /\ k \in DOMAIN pre[1] => ran = {}
       /\ (ReturnedGets # {} /\ k \notin DOMAIN pre[1]) =>
             \E c \in ran : \A d \in ReturnedGets : res[d] = Ok(fn[c].val)

\* all the calls have returned, one ran its compute and another shared its
\* flight
C1_Witness ==
    /\ \A c \in 1..MaxSeqCalls : c \in ReturnedGets
    /\ \E c, d \in Gets : invoked[c] = 1 /\ d # c /\ leader[d] = c

\* C2 (as claimed): of two concurrent Gets whose lookup sets share a
\* fullKey, with computes that succeed and no Forget, at most one invokes
\* its compute.
C2_OverlapComputesOnce ==
    \A c, d \in Gets :
        (c # d /\ c \notin prior[d] /\ d \notin prior[c]
            /\ keysOf(c) \cap keysOf(d) # {})
        => invoked[c] + invoked[d] <= 1

\* C3: a Get that supplies one lookup whose fullKey was stored when the
\* call began, and that no Forget has named since, finds it on the fast
\* path: it returns the value the store holds at that moment, with no
\* error, and has not invoked its compute.
C3_StoredLookupHits ==
    [][\A c \in Calls :
         (pc[c] = "fast" /\ pc'[c] # "fast" /\ Len(lookups[c]) = 1
             /\ HeldSince(c) # {})
         => LET k == FlightKey(lookups[c])
            IN /\ k \in DOMAIN store
               /\ pc'[c] = "ret"
               /\ res'[c] = Ok(store[k])
               /\ invoked'[c] = 0]_vars

\* such a Get has returned, and with a value another call wrote under the
\* fullKey after the Get began
C3_Witness ==
    \E c \in ReturnedGets :
        /\ Len(lookups[c]) = 1
        /\ HeldSince(c) # {}
        /\ invoked[c] = 0
        /\ res[c].err = Nil
        /\ res[c].val # pre[c][FlightKey(lookups[c])]

\* C4: with one call at a time, a Get whose compute returned an error
\* leaves the store as it found it and returns that error; the Get made
\* next with the same lookups invokes its own compute, and if that
\* succeeds its value is returned and stored under the lookups.
C4_FailureNotPersisted ==
    /\ \A c \in ReturnedGets :
         Failed(c) => post[c] = pre[c] /\ res[c].err = fn[c].err
    /\ \A c, d \in ReturnedGets :
         (Failed(c) /\ Follows(d, c) /\ lookups[d] = lookups[c])
         => /\ invoked[d] = 1
            /\ fn[d].err = Nil =>
                 /\ res[d] = Ok(fn[d].val)
                 /\ \A k \in keysOf(d) :
                      k \in DOMAIN post[d] /\ post[d][k] = fn[d].val

\* a failed Get was followed by a Get with the same lookups that succeeded
C4_Witness ==
    \E c, d \in ReturnedGets :
        Failed(c) /\ Follows(d, c) /\ lookups[d] = lookups[c] /\ Computed(d)

\* C5: when the compute of a flight's winner returned an error, the winner
\* and every call that shared the flight return that error and no value,
\* the sharing calls invoke no compute, and no step the flight's calls take
\* from the compute on changes the store.
C5_ErrorShared ==
    /\ [](\A w \in ReturnedGets :
            Failed(leader[w])
            => /\ res[w] = [val |-> Zero, err |-> fn[leader[w]].err]
               /\ leader[w] # w => invoked[w] = 0)
    /\ [][\A c \in Gets :
            (pc'[c] # pc[c] /\ pc[c] \in {"running", "done", "wait", "after"}
                /\ Failed(leader[c]))
            => store' = store]_vars

\* a call that shared a failed flight has returned the winner's error
C5_Witness ==
    \E w \in ReturnedGets :
        /\ leader[w] # w
        /\ Failed(leader[w])
        /\ leader[w] \in Returned
        /\ res[w].err = ErrBoom

\* C6: a Get one of whose fullKeys, at whatever position, was stored when
\* the call began and was named by no Forget since resolves on the fast
\* path with a value the store holds under one of its fullKeys at that
\* moment; it returns that value with no error and invokes no compute,
\* whether or not its other fullKeys are stored.
C6_AnyLookupHits ==
    /\ [](\A c \in ReturnedGets :
            HeldSince(c) # {}
            => /\ res[c].err = Nil
               /\ invoked[c] = 0
               /\ Len(lookups[c]) > 1 => res[c].val = found[c])
    /\ [][\A c \in Calls :
            (pc[c] = "fast" /\ pc'[c] # "fast" /\ HeldSince(c) # {})
            => /\ pc'[c] \in {"ret", "backfill"}
               /\ LET v == IF pc'[c] = "ret" THEN res'[c].val ELSE found'[c]
                  IN \E k \in keysOf(c) \cap DOMAIN store : v = store[k]]_vars

\* a Get hit on its second lookup while its first was not stored
C6_Witness ==
    \E c \in ReturnedGets :
        /\ Len(lookups[c]) = 2
        /\ cacheKeys(lookups[c])[1] \notin DOMAIN pre[c]
        /\ cacheKeys(lookups[c])[2] \in HeldSince(c)
        /\ res[c] = Ok(pre[c][cacheKeys(lookups[c])[2]])
        /\ invoked[c] = 0

\* exactly one of the two fullKeys of Get c was stored when it began, and
\* Get d, made next, supplies the other alone
PartialHitThenOther(c, d) ==
    /\ Follows(d, c)
    /\ Len(lookups[c]) = 2
    /\ Cardinality(keysOf(c) \cap DOMAIN pre[c]) = 1
    /\ Len(lookups[d]) = 1
    /\ keysOf(d) = keysOf(c) \ DOMAIN pre[c]

\* C7: with one call at a time, L1 stored holding V and L2 not stored, a
\* Get with both lookups (in either order) returns V without invoking its
\* compute, and the Get made next with L2 alone returns V without invoking
\* its compute.
C7_BackfillOnPartialHit ==
    \A c, d \in ReturnedGets :
        PartialHitThenOther(c, d)
        => LET k1 == CHOOSE k \in keysOf(c) : k \in DOMAIN pre[c]
           IN /\ res[c] = Ok(pre[c][k1]) /\ invoked[c] = 0
              /\ res[d] = Ok(pre[c][k1]) /\ invoked[d] = 0

\* the partial hit was on the second lookup, and the next Get has returned
C7_Witness ==
    \E c, d \in ReturnedGets :
        /\ PartialHitThenOther(c, d)
        /\ cacheKeys(lookups[c])[1] \notin DOMAIN pre[c]
        /\ invoked[d] = 0

\* C8: with one call at a time, a Get none of whose fullKeys is stored
\* invokes its compute exactly once; on success it returns the result and
\* has stored it under every supplied fullKey, and the Get made next with
\* any one of those lookups alone returns that result without invoking its
\* compute.
C8_MultiKeyStore ==
    \A c \in ReturnedGets :
        keysOf(c) \cap DOMAIN pre[c] = {}
        => /\ invoked[c] = 1
           /\ fn[c].err = Nil =>
                /\ res[c] = Ok(fn[c].val)
                /\ \A k \in keysOf(c) :
                     k \in DOMAIN post[c] /\ post[c][k] = fn[c].val
                /\ \A d \in ReturnedGets :
                     (Follows(d, c) /\ Len(lookups[d]) = 1
                         /\ keysOf(d) \subseteq keysOf(c))
                     => res[d] = Ok(fn[c].val) /\ invoked[d] = 0

\* a full miss with two lookups succeeded and the next Get asked for the
\* second of them
C8_Witness ==
    \E c, d \in ReturnedGets :
        /\ keysOf(c) \cap DOMAIN pre[c] = {}
        /\ Len(lookups[c]) = 2
        /\ Computed(c)
        /\ Follows(d, c)
        /\ lookups[d] = <<lookups[c][2]>>

\* Forget c named the fullKey that Get d, made next, supplies alone
ForgetThenGet(c, d) ==
    /\ c \in Forgets
    /\ d \in ReturnedGets
    /\ Follows(d, c)
    /\ Len(lookups[d]) = 1
    /\ keysOf(d) \subseteq keysOf(c)

\* C9: with one call at a time, the Get made right after a Forget that
\* named its lookup invokes its compute and returns the compute's outcome,
\* not the value the Forget removed; a successful result is stored under
\* the lookup.
C9_ForgetThenRecompute ==
    \A c, d \in Calls :
        ForgetThenGet(c, d)
        => LET k == FlightKey(lookups[d])
           IN /\ invoked[d] = 1
              /\ res[d] = IF fn[d].err = Nil THEN Ok(fn[d].val)
                          ELSE [val |-> Zero, err |-> fn[d].err]
              /\ k \in DOMAIN pre[c] => res[d].val # pre[c][k]
              /\ fn[d].err = Nil =>
                   k \in DOMAIN post[d] /\ post[d][k] = fn[d].val

\* the Forget removed a stored value and the next Get computed a new one
C9_Witness ==
    \E c, d \in Calls :
        /\ ForgetThenGet(c, d)
        /\ FlightKey(lookups[d]) \in DOMAIN pre[c]
        /\ Computed(d)

\* C10: a Forget leaves the store holding exactly the entries it held
\* before under the fullKeys the Forget does not name, each with its value.
C10_ForgetFrame ==
    \A c \in Forgets :
        /\ DOMAIN post[c] = DOMAIN pre[c] \ keysOf(c)
        /\ \A k \in DOMAIN post[c] : post[c][k] = pre[c][k]

\* a Forget removed one fullKey while another call was in progress and left
\* a sibling that held the same value
C10_Witness ==
    \E c \in Forgets :
        /\ InProgress # {}
        /\ \E k \in keysOf(c) \cap DOMAIN pre[c], j \in DOMAIN post[c] :
              pre[c][j] = pre[c][k]

\* C11: a Get on a context that carries no Cache invokes its compute
\* exactly once, shares no other call's flight and emits no event, and what
\* it returns is what its compute returned (value and error as they are, or
\* the compute's own panic and no other fault); no step of it changes the
\* store or the coalescing registry.
C11_NoCacheComputes ==
    /\ [](\A c \in GetsNoCache :
            /\ invoked[c] = 1
            /\ leader[c] = c
            /\ ev[c] = <<>>
            /\ c \in Returned => res[c] = fn[c])
    /\ [][\A c \in Calls :
            (op'[c] = "GetNoCache" /\ pc'[c] # pc[c])
            => store' = store /\ group' = group /\ ev' = ev]_vars

\* two Gets without a Cache, with the same lookups, ran at the same time;
\* both computes ran, one returned a value with an error
C11_Witness ==
    \E c, d \in GetsNoCache \cap Returned :
        /\ Overlap(c, d)
        /\ lookups[c] = lookups[d]
        /\ Len(lookups[c]) > 0
        /\ res[c] = [val |-> c, err |-> ErrBoom]
        /\ res[d] = Ok(d)

\* C12 (as claimed): a Get on the Cache that is given no lookup invokes its
\* compute exactly once and returns what the compute returned, without a
\* fault.
C12_ZeroLookupsCompute ==
    \A c \in ReturnedGets :
        Len(lookups[c]) = 0
        => invoked[c] = 1 /\ res[c] = fn[c] /\ ~IsFault(res[c].err)

\* C13 (as claimed): a Get whose compute returned the zero value (nil) with
\* a nil error returns it with no error, and the Get made next with the
\* same lookup returns it with no error without invoking its compute.
C13_NilValueCached ==
    \A c, d \in ReturnedGets :
        (Follows(d, c) /\ lookups[d] = lookups[c]
            /\ invoked[c] = 1 /\ fn[c] = Ok(Zero))
        => res[c] = Ok(Zero) /\ res[d] = Ok(Zero) /\ invoked[d] = 0

\* C14: with one call at a time, a Get whose compute panicked ends in that
\* panic, leaves the store as it found it and leaves no entry of its own in
\* the registry; the Get made next with the same lookups invokes its own
\* compute, and if that succeeds its value is returned and stored under the
\* lookups.
C14_PanicNotPoisoning ==
    /\ \A c \in ReturnedGets :
         Panicked(c)
         => /\ res[c] = [val |-> Zero, err |-> fn[c].err]
            /\ post[c] = pre[c]
            /\ \A k \in DOMAIN group : group[k] # c
    /\ \A c, d \in ReturnedGets :
         (Panicked(c) /\ Follows(d, c) /\ lookups[d] = lookups[c])
         => /\ invoked[d] = 1
            /\ fn[d].err = Nil =>
                 /\ res[d] = Ok(fn[d].val)
                 /\ \A k \in keysOf(d) :
                      k \in DOMAIN post[d] /\ post[d][k] = fn[d].val

\* a Get that panicked was followed by a Get with the same lookups that
\* computed and stored a value
C14_Witness ==
    \E c, d \in ReturnedGets :
        /\ Panicked(c) /\ Follows(d, c) /\ lookups[d] = lookups[c]
        /\ Computed(d)
        /\ keysOf(d) \subseteq DOMAIN store

\* C15: when the compute of a flight's winner panicked, every call that
\* shared the flight ends in that panic, with no value and without
\* invoking its own compute; and no call is still waiting on a flight
\* whose winner has left group.Do.
C15_PanicShared ==
    /\ \A w \in ReturnedGets :
         (leader[w] # w /\ Panicked(leader[w]))
         => res[w] = [val |-> Zero, err |-> fn[leader[w]].err] /\ invoked[w] = 0
    /\ \A w \in Gets :
         pc[w] = "wait" => pc[leader[w]] \in {"check", "running", "done"}

\* a call that shared a panicking flight has ended in the winner's panic,
\* after the winner did
C15_Witness ==
    \E w \in ReturnedGets :
        /\ leader[w] # w
        /\ Panicked(leader[w])
        /\ leader[w] \in Returned
        /\ res[w].err = Kaboom

\* C16 (as claimed): after a Get through a key of one value type stored
\* its result, the Get made next through the key of the same name and
\* another value type, with the same identifier, invokes its own compute
\* and returns that compute's value.
C16_TypesDoNotCollide ==
    \A c, d \in ReturnedGets :
        (Follows(d, c) /\ Computed(c) /\ lookups[d][1].Key.T # lookups[c][1].Key.T
            /\ lookups[d][1].Identifier = lookups[c][1].Identifier)
        => invoked[d] = 1 /\ res[d] = fn[d]

\* C17: with an observer attached and one call at a time, a Get that has
\* returned made exactly one observer call: a Miss when it invoked its
\* compute (whether that succeeded or failed), a Hit when it did not and
\* returned a value the store held when it began; never a Dedup.  So the
\* five Gets of TestSequence yield 2 Miss and 3 Hit, and a Get whose
\* compute failed yields one Miss and no Hit.
C17_OneEventPerGet ==
    /\ \A c \in ReturnedGets :
         /\ Len(ev[c]) = 1
         /\ invoked[c] <= 1
         /\ Events(c)[1].Event = EventMiss <=> invoked[c] = 1
         /\ Events(c)[1].Event = EventHit <=>
               /\ invoked[c] = 0
               /\ \E k \in keysOf(c) \cap DOMAIN pre[c] : res[c] = Ok(pre[c][k])
         /\ Failed(c) => Count(EventMiss, {c}) = 1 /\ Count(EventHit, {c}) = 0
    /\ RanTestSequence
         => /\ Count(EventMiss, 1..Len(TestSequence)) = 2
            /\ Count(EventHit, 1..Len(TestSequence)) = 3
            /\ Count(EventDedup, 1..Len(TestSequence)) = 0

\* the five Gets of TestSequence have returned
C17_Witness ==
    /\ RanTestSequence
    /\ Events(3) = <<EventData(EventMiss, L2)>>
    /\ Events(5) = <<EventData(EventHit, L1)>>

C19_DispatchBlocks ==
    /\ \A c \in ReturnedGets : Len(ev[c]) > 0 /\ AllOnReturned(c)
    /\ \A c \in Gets :
         invoked[c] > 0
         => \E i \in 1..Len(ev[c]) :
               ev[c][i].On.Event = EventMiss /\ ev[c][i].returned
    /\ \A w \in Gets :
         (leader[w] # w /\ pc[w] \in {"after", "onDedup", "ret"})
         => Len(ev[leader[w]]) > 0 /\ AllOnReturned(leader[w])

\* a call is inside the observer's On for its Dedup while the winner and
\* another call of the flight have returned
C19_Witness ==
    \E w \in Gets :
        /\ pc[w] = "onDedup"
        /\ leader[w] \in Returned
        /\ \E v \in Waiters(leader[w]) \cap Returned : v # w

\* C21: every context but Background carries the Cache of the WithCache
\* call that made it, a different Cache for each call, and Background
\* carries none; a Get returns a value that the compute of another call
\* returned only when both calls were given the same Cache, and a value
\* stored before the behaviour began only through the first Cache.
C21_FreshCachePerScope ==
    /\ \A h \in ctxs : FromContext(h) = NoCache <=> h = Background
    /\ \A h, g \in ctxs \ {Background} :
         FromContext(h) = FromContext(g) => h = g
    /\ \A d \in ReturnedGets :
         /\ \A c \in Calls \ {d} : res[d] = Ok(c) => cache[c] = cache[d]
         /\ res[d].val \in SeedValues => cache[d] = FirstCache
         /\ cache[d] # NoCache
    /\ \A d \in GetsNoCache : cache[d] = NoCache

\* the first Cache holds a value under L1; a Get of L1 with the child
\* context made by WithCache from the first context ran its own compute,
\* and the Get made next with the first context returned the held value
C21_Witness ==
    /\ <<FirstCache, 2>> \in ctxs
    /\ {1, 2} \subseteq ReturnedGets
    /\ cache[1] = 2 /\ cache[2] = FirstCache
    /\ res[1] = Ok(1) /\ invoked[1] = 1
    /\ res[2].val \in SeedValues /\ invoked[2] = 0
    /\ fullKey(L1) \in DOMAIN parked[2]

\* C20: a Forget on a context that carries no Cache returns normally, and
\* its step changes nothing but its own call record: the store, the
\* registry, the events and every other call stay as they were.
C20_ForgetNoCacheNoop ==
    /\ [](\A c \in ForgetsNoCache :
            c \in Returned /\ post[c] = pre[c] /\ res[c] = NoOut)
    /\ [][\A c \in Calls :
            (op'[c] = "ForgetNoCache" /\ op[c] = "none")
            => /\ store' = store /\ group' = group /\ ev' = ev
               /\ forgot' = forgot
               /\ \A d \in Calls \ {c} : pc'[d] = pc[d] /\ out'[d] = out[d]]_vars

\* such a Forget named a stored fullKey while a Get was in progress, and
\* the entry is still there
C20_Witness ==
    \E c \in ForgetsNoCache :
        /\ InProgress \cap Gets # {}
        /\ \E k \in keysOf(c) \cap DOMAIN pre[c] :
              k \in DOMAIN store /\ store[k] = pre[c][k]

\* C22: every value in the store is one that the compute of some call
\* returned with a nil error (or that was stored so before the behaviour
\* began), whether the closure stored it or a backfill copied it; what a
\* compute returned with an error, and the outcome of one that panicked,
\* is never in the store.
C22_StoreHoldsComputed ==
    \A k \in DOMAIN store :
        \/ store[k] \in SeedValues
        \/ \E c \in Gets : Computed(c) /\ store[k] = fn[c].val

\* the store holds the value of a compute under a fullKey its call did not
\* supply, copied there by the backfill of a call whose own compute would
\* have failed or panicked
C22_Witness ==
    \E k \in DOMAIN store, c, d \in ReturnedGets :
        /\ store[k] = fn[c].val /\ Computed(c) /\ k \notin keysOf(c)
        /\ k \in keysOf(d) /\ fn[d].err # Nil /\ invoked[d] = 0

\* the fullKey of the first lookup of call c
firstKey(c) == cacheKeys(lookups[c])[1]

\* C23: no two calls whose first lookups have the same fullKey are running
\* their computes at the same time, and a call that joined another call's
\* flight returns what that call returns: the same value, error or panic.
C23_OneFlightPerKey ==
    /\ \A c, d \in Gets :
         (c # d /\ pc[c] = "running" /\ pc[d] = "running")
         => firstKey(c) # firstKey(d)
    /\ \A w \in ReturnedGets :
         (leader[w] # w /\ leader[w] \in Returned) => res[w] = res[leader[w]]

\* a call returned the value its flight's winner computed and returned
C23_Witness ==
    \E w \in ReturnedGets :
        /\ leader[w] # w
        /\ leader[w] \in Returned
        /\ invoked[leader[w]] = 1
        /\ res[w] = Ok(fn[leader[w]].val)

\* C24 (as claimed): with one call at a time, a Get with several lookups
\* that hit on the fast path leaves every supplied fullKey that was stored
\* when it began with the value it had.
C24_BackfillOnlyAbsent ==
    \A c \in ReturnedGets :
        (Len(lookups[c]) > 1 /\ keysOf(c) \cap DOMAIN pre[c] # {})
        => \A k \in keysOf(c) \cap DOMAIN pre[c] : post[c][k] = pre[c][k]

\* C25 (as claimed): the backfill step of a Get does not write the fullKey
\* that produced its hit: when that fullKey is no longer stored, a Forget
\* having removed it since the hit was read, it is not stored after the
\* backfill either, and when it is stored its value stays.
C25_BackfillSparesHitKey ==
    [][\A c \in Calls :
         (pc[c] = "backfill" /\ pc'[c] # "backfill")
         => IF hit[c] \in DOMAIN store
            THEN hit[c] \in DOMAIN store' /\ store'[hit[c]] = store[hit[c]]
            ELSE hit[c] \notin DOMAIN store']_vars

\* C26 (as claimed): when a Get on the Cache has returned a value with no
\* error and no Forget ran during the call, every fullKey it supplied is in
\* the store as the call returns.
C26_AllKeysStoredOnReturn ==
    \A c \in ReturnedGets :
        (res[c].err = Nil /\ forgot[c] = {}) => keysOf(c) \subseteq DOMAIN post[c]

\* C27 (as claimed): once a Forget naming lookup L has returned, a Get on the
\* Cache with the single lookup L that begins afterwards never returns a value
\* produced before that Forget: neither a value the store held from earlier
\* compute invocations, nor the value of a compute invocation that had
\* started when the Forget ran.
C27_ForgetOutdatesEarlierComputes ==
    \A f \in Forgets : \A d \in ReturnedGets :
        (/\ f \in prior[d]
         /\ Len(lookups[d]) = 1
         /\ keysOf(d) \subseteq keysOf(f)
         /\ res[d].err = Nil)
        => /\ res[d].val \notin SeedValues
           /\ \A c \in started[f] : res[d] # Ok(fn[c].val)

\* the fast path of call c ends in this step
ScansStore(c) == pc[c] = "fast" /\ pc'[c] # "fast"

\* the supplied lookups of call c that are stored, by position
StoredAt(c) ==
    {i \in 1..Len(lookups[c]) : cacheKeys(lookups[c])[i] \in DOMAIN store}

\* C28: when the fast path of a Get finds several of its lookups stored with
\* different values, it takes the value of the first stored lookup in the
\* order the lookups were given, and that value is what the Get returns.
C28_FastPathArgumentOrder ==
    /\ [][\A c \in Calls :
            (/\ ScansStore(c)
             /\ \E i, j \in StoredAt(c) :
                    store[cacheKeys(lookups[c])[i]] # store[cacheKeys(lookups[c])[j]])
            => \E i \in StoredAt(c) :
                  /\ \A j \in StoredAt(c) : i <= j
                  /\ hit'[c] = cacheKeys(lookups[c])[i]
                  /\ found'[c] = store[cacheKeys(lookups[c])[i]]]_vars
    /\ [](\A c \in ReturnedGets : hit[c] # "" => res[c] = Ok(found[c]))

\* a Get given <<L2, L1>> on a store holding both with different values has
\* returned what was stored under L2
C28_Witness ==
    \E c \in ReturnedGets :
        /\ lookups[c] = <<L2, L1>>
        /\ keysOf(c) \subseteq DOMAIN pre[c]
        /\ pre[c][fullKey(L1)] # pre[c][fullKey(L2)]
        /\ hit[c] = fullKey(L2)
        /\ res[c] = Ok(pre[c][fullKey(L2)])

\* the winner c of a flight makes its re-check in this step
Rechecks(c) == pc[c] = "check" /\ pc'[c] # "check"

\* call c missed on the fast path, won its flight and was handed a Hit
HitOnRecheck(c) ==
    /\ hit[c] = ""
    /\ leader[c] = c
    /\ \E i \in 1..Len(lookups[c]) :
          \E n \in 1..Len(ev[c]) : Events(c)[n] = EventData(EventHit, lookups[c][i])

\* C29: the winner of a flight re-reads the store for all of its lookups
\* before computing; when any of them is stored by then, it takes that value,
\* emits Hit for that lookup and its compute is not invoked, then or later:
\* the Get returns the value found, with no Miss emitted.
C29_RecheckBeforeCompute ==
    /\ [][\A c \in Calls :
            (Rechecks(c) /\ StoredAt(c) # {})
            => /\ invoked'[c] = invoked[c]
               /\ pc'[c] \notin {"running", "onMiss"}
               /\ \E i \in StoredAt(c) :
                     /\ out'[c] = Ok(store[cacheKeys(lookups[c])[i]])
                     /\ ev'[c] = Append(ev[c],
                                    [On |-> EventData(EventHit, lookups[c][i]),
                                     returned |-> FALSE])]_vars
    /\ [](\A c \in ReturnedGets :
            HitOnRecheck(c)
            => /\ invoked[c] = 0
               /\ res[c] = out[c]
               /\ \A n \in 1..Len(ev[c]) : Events(c)[n].Event # EventMiss)

\* a Get of <<L1, L2>> that won the flight of L1, found on its re-check
\* what a Get of L2 had stored meanwhile, and returned it without computing
C29_Witness ==
    \E c \in ReturnedGets : \E d \in Gets \ {c} :
        /\ lookups[c] = <<L1, L2>>
        /\ lookups[d] = <<L2>>
        /\ HitOnRecheck(c)
        /\ invoked[c] = 0
        /\ invoked[d] = 1
        /\ res[c] = Ok(fn[d].val)
        /\ Events(c) = <<EventData(EventHit, L2)>>

\* call d is inside the closure of a flight it won
InFlight(d) ==
    /\ d \in Gets
    /\ leader[d] = d
    /\ pc[d] \in {"check", "onMiss", "onHitCheck", "running", "done"}

\* call c, having missed on the fast path, enters group.Do in this step
EntersDo(c) == pc[c] = "do" /\ pc'[c] # "do" /\ Len(lookups[c]) > 0

\* C30: a call that missed on the fast path joins the flight in progress for
\* the fullKey of its first lookup, whatever its other lookups are, and
\* blocks; a call that joined a flight never invokes its own compute, stays
\* blocked only while the winner is in the closure, and returns what the
\* winner returns.
C30_CoalescedOnFirstLookup ==
    /\ [][\A c \in Calls : \A d \in Calls \ {c} :
            (EntersDo(c) /\ InFlight(d) /\ firstKey(d) = firstKey(c))
            => /\ pc'[c] = "wait"
               /\ leader'[c] = d
               /\ invoked' = invoked]_vars
    /\ [](\A w \in Gets :
            leader[w] # w
            => /\ invoked[w] = 0
               /\ firstKey(w) = firstKey(leader[w])
               /\ pc[w] = "wait" => InFlight(leader[w])
               /\ (w \in Returned /\ leader[w] \in Returned)
                    => res[w] = res[leader[w]])

\* a call given <<L1, L2>> joined the flight of a call given <<L1>> alone
\* and returned the value that call computed, without computing
C30_Witness ==
    \E w \in ReturnedGets :
        /\ leader[w] # w
        /\ lookups[w] = <<L1, L2>>
        /\ lookups[leader[w]] = <<L1>>
        /\ leader[w] \in Returned
        /\ invoked[w] = 0
        /\ invoked[leader[w]] = 1
        /\ res[w] = Ok(fn[leader[w]].val)

\* C31 (as claimed): a Get that begins after a compute for its key has
\* returned an error or panicked, with nothing stored under its key, starts
\* a computation of its own: its compute is invoked and it returns that
\* compute's outcome, not the earlier failure.
C31_FreshAfterFailedBody ==
    \A d \in ReturnedGets :
        (/\ keysOf(d) \cap DOMAIN pre[d] = {}
         /\ \E c \in Gets : c < d /\ Failed(c) /\ firstKey(c) = firstKey(d))
        => invoked[d] = 1 /\ res[d] = GetResult(fn[d])

\* C31 (amended): the registry holds a key exactly while the winner of the
\* flight for that key is inside group.Do, and the closure's end is followed
\* by the key's removal, whatever the outcome.  A call that enters group.Do
\* with no such winner inside becomes the winner of a new flight and, having
\* found nothing stored, returns the outcome of its own compute, invoked
\* once; a call that enters between the end of the closure and the removal
\* of the key still shares the flight and receives its outcome.
C31_RetiredOnLeavingDo ==
    /\ [](/\ \A k \in DOMAIN group :
               InFlight(group[k]) /\ firstKey(group[k]) = k
          /\ \A c \in Gets : InFlight(c) => firstKey(c) \in DOMAIN group
                                            /\ group[firstKey(c)] = c
          /\ \A d \in ReturnedGets :
               (keysOf(d) \cap DOMAIN pre[d] = {} /\ hit[d] = "")
               => IF leader[d] = d
                  THEN invoked[d] = 1 /\ res[d] = GetResult(fn[d])
                  ELSE invoked[d] = 0 /\ res[d] = GetResult(fn[leader[d]]))
    /\ [][\A c \in Calls :
            /\ (pc[c] = "done" /\ pc'[c] # "done")
                 => firstKey(c) \notin DOMAIN group'
            /\ (EntersDo(c) /\ firstKey(c) \notin DOMAIN group)
                 => pc'[c] = "check" /\ leader'[c] = c]_vars

\* a Get that began after a compute had failed, while the failed Get was
\* still in progress, entered group.Do after the key was removed and
\* returned the outcome of its own compute
C31_Witness ==
    \E d \in ReturnedGets : \E c \in Gets :
        /\ c < d
        /\ c \notin prior[d]
        /\ Failed(c)
        /\ leader[d] = d
        /\ invoked[d] = 1
        /\ res[d] = Ok(fn[d].val)

\* the call holding c.mu exclusively, if any
Writer == {mu.w} \ {0}

\* the calls that call c cannot go on without: the winner of the flight it
\* shares, the calls its fn made, the holders of c.mu it is blocked on
WaitsFor(c) ==
    IF pc[c] = "wait" THEN {leader[c]}
    ELSE IF pc[c] = "running" THEN Pending(c)
    ELSE IF c \in mu.q THEN mu.r \cup Writer
    ELSE IF pc[c] \in RLockSites /\ ~CanRLock(mu) THEN Writer \cup mu.q
    ELSE {}

\* the calls reached from S in at most n steps of WaitsFor
RECURSIVE Awaited(_, _)
Awaited(S, n) ==
    IF n = 0 THEN S
    ELSE Awaited(S \cup UNION {WaitsFor(d) : d \in S}, n - 1)

\* call c waits, directly or through other calls, for itself
Deadlocked(c) == c \in Awaited(WaitsFor(c), Cardinality(Calls))

\* call c holds c.mu, shared or exclusively
Holds(c) == c \in mu.r \/ mu.w = c

\* call c calls c.mu.Lock() in this step, or is given the lock
RequestsLock(c) == (c \in mu'.q /\ c \notin mu.q) \/ (mu'.w = c /\ mu.w # c)

\* C37 (as claimed): whatever Gets (with a first lookup other than that of
\* the Get they run for) and Forgets the computes make on the same Cache, no
\* call ever waits, directly or through other calls, for itself.
C37_NestedCallsNeverDeadlock == \A c \in Calls : ~Deadlocked(c)

\* C37 (amended): a call invokes its compute, and stays in it, holding c.mu
\* in no way; no call asks for the exclusive lock while it holds the shared
\* one; a call that holds c.mu waits for nothing and can take its next step.
\* So c.mu takes part in no deadlock: the calls that wait for themselves are
\* all waiting on a flight or for the return of a call their compute made,
\* and as long as there is none, some call in progress can take a step.
C37_LockNotHeldAcrossCompute ==
    /\ [](/\ \A c \in Calls :
               /\ pc[c] = "running" => ~Holds(c) /\ c \notin mu.q
               /\ Holds(c) => WaitsFor(c) = {} /\ ENABLED Moves(c)
               /\ Deadlocked(c) => pc[c] \in {"wait", "running"}
          /\ mu.w # 0 => mu.r = {}
          /\ (InProgress # {} /\ \A c \in Calls : ~Deadlocked(c))
               => \E c \in InProgress : ENABLED Moves(c))
    /\ [][\A c \in Calls :
            /\ invoked'[c] # invoked[c] => ~Holds(c)' /\ c \notin mu'.q
            /\ RequestsLock(c) => c \notin mu.r]_vars

\* a compute called Get on the same Cache; that Get computed and stored its
\* own result and returned, and then the outer Get returned its result
C37_Witness ==
    \E p \in ReturnedGets : \E d \in ReturnedGets :
        /\ caller[d] = p
        /\ invoked[d] = 1
        /\ firstKey(d) \in DOMAIN post[d]
        /\ res[d] = Ok(fn[d].val)
        /\ res[p] = Ok(fn[p].val)

\* C32: with computes and observer calls that return and make no call on the
\* Cache, and a scheduler that keeps running some call that can run, every
\* Get and every Forget that begins returns: from some point on no call is
\* in progress, none blocked on a flight, none holding or awaiting c.mu.
C32_EveryCallReturns ==
    <>[](InProgress = {} /\ mu = Unlocked /\ group = EmptyMap)

\* a call that was blocked on a flight has returned after the winner did,
\* and nobody holds or awaits c.mu
C32_Witness ==
    \E w \in ReturnedGets :
        /\ leader[w] # w
        /\ leader[w] \in Returned
        /\ InProgress = {}
        /\ mu = Unlocked

\* C33: no Get call invokes the compute it was given more than once, whether
\* the compute succeeds, returns an error or panics, and whatever Gets and
\* Forgets run meanwhile; a call that invoked it returns its outcome.
C33_NoInternalRetry ==
    \A c \in Gets :
        /\ invoked[c] <= 1
        /\ (c \in Returned /\ invoked[c] = 1) => res[c] = GetResult(fn[c])

\* a Get whose compute failed while a Forget named its lookup has returned
\* the failure, having invoked the compute once
C33_Witness ==
    \E c \in ReturnedGets :
        /\ Failed(c)
        /\ forgot[c] # {}
        /\ invoked[c] = 1
        /\ res[c].err = fn[c].err

\* C34 (as claimed): two Gets address the same store slot only when their
\* lookups have the same value type, the same key name and the same
\* identifier, whatever strings the names and identifiers are; so a Get
\* through another name or identifier computes its own value.
C34_FullKeyInjective ==
    \A c, d \in ReturnedGets :
        /\ firstKey(c) = firstKey(d) => lookups[c] = lookups[d]
        /\ (lookups[c] # lookups[d] /\ c \in prior[d]) => invoked[d] = 1

\* the Gets begun so far that share a fullKey with call c
Related(c) == {d \in Gets \ {c} : keysOf(c) \cap keysOf(d) # {}}

\* C35: a Get on a fresh Cache whose lookups share no fullKey with those of
\* any other Get wins the flight it enters and never waits on another call;
\* it invokes its own compute, once, returns that compute's outcome and, on
\* success, has stored that value under its fullKeys.
C35_DisjointGetsIndependent ==
    \A c \in Gets :
        Related(c) = {}
        => /\ leader[c] = c
           /\ pc[c] # "wait"
           /\ c \in Returned =>
                /\ invoked[c] = 1
                /\ res[c] = GetResult(fn[c])
                /\ fn[c].err = Nil =>
                     \A k \in keysOf(c) :
                        k \in DOMAIN post[c] /\ post[c][k] = fn[c].val

\* a Get of L1 and a Get of L2 were in progress at the same time; each
\* computed, and the store holds either value under its own fullKey
C35_Witness ==
    \E c \in ReturnedGets : \E d \in ReturnedGets :
        /\ lookups[c] = <<L1>>
        /\ lookups[d] = <<L2>>
        /\ Overlap(c, d)
        /\ Computed(c) /\ Computed(d)
        /\ res[c] = Ok(fn[c].val) /\ res[d] = Ok(fn[d].val)
        /\ store[fullKey(L1)] = fn[c].val
        /\ store[fullKey(L2)] = fn[d].val

\* the fullKeys of call c under which the store holds the result of its compute
Written(c) ==
    {k \in keysOf(c) : k \in DOMAIN store /\ store[k] = fn[c].val}

\* call c is in its store loop (lines 130-132) with some but not all of its
\* fullKeys written
Torn(c) == pc[c] = "storing" /\ Written(c) # {} /\ Written(c) # keysOf(c)

\* the program points at which a call reads or writes the store: the two
\* scans of Get, the backfill, the deletes of Forget, and a Hit being
\* dispatched before the shared lock is released
Observing == {"scan", "rescan", "onHit", "onHitCheck", "fill", "forgetting"}

\* C36: while the winner of a flight is in its store loop it holds c.mu
\* exclusively and no other Get or Forget is at a point where it reads or
\* writes the store, so none of them sees the winner's result stored under
\* some but not all of the winner's fullKeys.
C36_StoreLoopAtomic ==
    \A c \in Gets :
        pc[c] = "storing"
        => /\ mu.w = c
           /\ mu.r = {}
           /\ \A d \in Calls \ {c} : pc[d] \notin Observing \cup {"storing"}

C36_Witness ==
    \E c \in Gets : \E d \in Calls \ {c} :
        /\ Torn(c)
        /\ \/ pc[d] \in RLockSites
           \/ d \in mu.q

\* what Get hands back for a compute that returned errBoom: the zero value
\* of T and that error
ZeroAndErr == [val |-> Zero, err |-> ErrBoom]

\* call c invoked its compute and the compute returned a value with errBoom
ReturnedErr(c) == invoked[c] > 0 /\ fn[c] = Compute(c, "err")

\* C38: a Get whose compute returned an error returns that error with the
\* zero value of T and not the value the compute returned with it, on the
\* context that carries the Cache and on a context that carries none alike.
C38_ZeroValueWithError ==
    \A c \in Returned :
        (op[c] \in {"Get", "GetNoCache"} /\ ReturnedErr(c)) => res[c] = ZeroAndErr

\* C38, as the code has it: with a Cache, a Get whose compute returned an
\* error, and every Get that joined its flight, returns that error with the
\* zero value of T; without a Cache, Get returns what the compute returned,
\* the value next to the error included.
C38_ZeroValueWithErrorOnCache ==
    /\ \A c \in ReturnedGets : ReturnedErr(c) => res[c] = ZeroAndErr
    /\ \A w \in ReturnedGets :
         (leader[w] # w /\ ReturnedErr(leader[w])) => res[w] = ZeroAndErr
    /\ \A c \in GetsNoCache \cap Returned :
         ReturnedErr(c) => res[c] = [val |-> fn[c].val, err |-> ErrBoom]

C38_Witness ==
    \E c \in ReturnedGets : \E w \in ReturnedGets : \E d \in GetsNoCache \cap Returned :
        /\ ReturnedErr(c) /\ res[c] = ZeroAndErr
        /\ leader[w] = c /\ w # c /\ res[w] = ZeroAndErr
        /\ ReturnedErr(d) /\ res[d].val # Zero /\ res[d].err = ErrBoom

\* the event call c emits in this step
Emits(c) == Len(ev'[c]) = Len(ev[c]) + 1
Emitted(c) == ev'[c][Len(ev'[c])].On

\* event e carries the key name and the identifier of lookup l
Carries(e, l) == e.Key = l.Key.name /\ e.Identifier = l.Identifier

\* C39: a Hit event carries the key name and identifier of the lookup whose
\* fullKey the scan found in the store, the first such in argument order
\* and not necessarily the first supplied; a Miss event carries those of
\* the first lookup supplied.
C39_EventCarriesTriggeringLookup ==
    [][\A c \in Gets :
         Emits(c)
         => LET e == Emitted(c)
                i == FirstHit(store, cacheKeys(lookups[c]))
            IN /\ e.Event = EventHit => i # 0 /\ Carries(e, lookups[c][i])
               /\ e.Event = EventMiss => i = 0 /\ Carries(e, lookups[c][1])]_vars

\* a Get of L2 emitted a Miss carrying L2 and stored its result; a Get of L1
\* and L2 emitted a Hit carrying L2, the second lookup, found in the store
\* where L1 was not
C39_Witness ==
    \E c \in ReturnedGets : \E d \in ReturnedGets :
        /\ lookups[c] = <<L2>> /\ lookups[d] = <<L1, L2>>
        /\ ev[c] = <<[On |-> EventData(EventMiss, L2), returned |-> TRUE]>>
        /\ ev[d] = <<[On |-> EventData(EventHit, L2), returned |-> TRUE]>>
        /\ res[d] = Ok(fn[c].val)

\* Get and Forget with no observer attached (c.emit returns at once, part_002
\* lines 19-21), as a function: the next step of call c, whose operation is
\* o with lookups ls and compute f, from u, the store, the registry and each
\* call's position, flight, closure result, return value, number of
\* compute invocations and value v found for the backfill
GetUnobserved(u, c, o, ls, f) ==
    LET ks == cacheKeys(ls)
        at(p) == [u.pc EXCEPT ![c] = p]
        ret(r) == [u EXCEPT !.pc = at("ret"), !.res[c] = r]
    IN CASE u.pc[c] = "new" ->
              IF o = "Get" THEN [u EXCEPT !.pc = at("fast")]
              ELSE [u EXCEPT !.pc = at("ret"), !.store = ForgetKeys(u.store, ks)]
         [] u.pc[c] = "fast" ->
              LET i == FirstHit(u.store, ks)
              IN IF i = 0 THEN [u EXCEPT !.pc = at("do")]
                 ELSE IF Len(ks) > 1
                 THEN [u EXCEPT !.pc = at("backfill"),
                                !.found[c] = u.store[ks[i]]]
                 ELSE ret(Asserted(c, [val |-> u.store[ks[i]], err |-> Nil]))
         [] u.pc[c] = "backfill" ->
              [ret(Asserted(c, [val |-> u.found[c], err |-> Nil]))
                 EXCEPT !.store = Backfill(u.store, ks, u.found[c])]
         [] u.pc[c] = "do" ->
              LET k == FlightKey(ls)
              IN IF k \in DOMAIN u.group
                 THEN [u EXCEPT !.pc = at("wait"), !.leader[c] = u.group[k]]
                 ELSE [u EXCEPT !.pc = at("check"),
                                !.group = [x \in DOMAIN u.group \cup {k} |->
                                             IF x = k THEN c ELSE u.group[x]]]
         [] u.pc[c] = "check" ->
              LET i == Recheck(u.store, ks)
              IN IF i = 0
                 THEN [u EXCEPT !.pc = at("running"), !.invoked[c] = @ + 1]
                 ELSE [u EXCEPT !.pc = at("done"),
                                !.out[c] = [val |-> u.store[ks[i]], err |-> Nil]]
         [] u.pc[c] = "running" ->
              [u EXCEPT !.pc = at(AfterFn(f)), !.out[c] = f,
                        !.store = ClosureStore(u.store, ks, f)]
         [] u.pc[c] = "done" ->
              LET k == FlightKey(ls)
                  ws == {w \in Calls : u.pc[w] = "wait" /\ u.leader[w] = c}
              IN [u EXCEPT !.group = [x \in DOMAIN u.group \ {k} |-> u.group[x]],
                           !.pc = [d \in Calls |-> IF d = c \/ d \in ws
                                                   THEN "after" ELSE u.pc[d]],
                           !.out = [d \in Calls |-> IF d \in ws THEN u.out[c]
                                                    ELSE u.out[d]]]
         [] u.pc[c] = "after" ->
              IF IsFault(u.out[c].err) THEN ret(u.out[c])
              ELSE ret(Asserted(c, GetResult(u.out[c])))

\* where a call inside observer.On is once On returns, what it has returned
\* by then and how often it has invoked its compute
PastOn(c) ==
    CASE pc[c] = "onHit" -> IF Len(lookups[c]) > 1 THEN "backfill" ELSE "ret"
      [] pc[c] = "onHitCheck" -> "done"
      [] pc[c] = "onMiss" -> "running"
      [] pc[c] = "onDedup" -> "ret"
      [] OTHER -> pc[c]

ResPastOn(c) ==
    CASE pc[c] = "onHit" /\ Len(lookups[c]) = 1 ->
           Asserted(c, [val |-> found[c], err |-> Nil])
      [] pc[c] = "onDedup" -> Asserted(c, GetResult(out[c]))
      [] OTHER -> res[c]

InvokedPastOn(c) == IF pc[c] = "onMiss" THEN invoked[c] + 1 ELSE invoked[c]

\* the state with the observer calls taken out
Unobserved ==
    [store |-> store, group |-> group,
     pc |-> [c \in Calls |-> PastOn(c)],
     found |-> [c \in Calls |-> IF Len(lookups[c]) > 1 THEN found[c] ELSE Zero],
     leader |-> leader, out |-> out,
     res |-> [c \in Calls |-> ResPastOn(c)],
     invoked |-> [c \in Calls |-> InvokedPastOn(c)]]

============================================================================
